---- MODULE Spec2Model ----
(***************************************************************************)
(* Model of the e-mail verification service (EmailCheckerService).         *)
(*                                                                         *)
(* JavaScript strings that the code inspects (split, startsWith, includes, *)
(* trim, toLowerCase) are sequences of one-character strings, so that the  *)
(* string operations are computed as the code computes them.  Strings the  *)
(* code only passes around (result messages, enum values) are TLA+ strings.*)
(***************************************************************************)
EXTENDS FiniteSets, Integers, Sequences, TLC

(***************************************************************************)
(* Bounds of the model.                                                    *)
(***************************************************************************)
\* Longest list of targets handed to one verifyManyEmail call.
MaxEmails == 2
\* Number of API calls (verify-one / verify-many requests) in one behaviour.
MaxCalls == 2
\* Number of data chunks the server side delivers during one SMTP probe.
MaxChunks == 6

(***************************************************************************)
(* JavaScript values and string operations.                                *)
(***************************************************************************)
\* The JavaScript value undefined where the code expects a string: a sequence
\* that is no sequence of characters.
Undefined == <<"undefined">>

\* The JavaScript value undefined where the code expects an object.
NoResult == [undefined |-> TRUE]

\* No inspection of the page has been made.
NotInspected == [state |-> "none", visible |-> {}]

UpperChars == <<"A", "B", "C", "D", "E", "F", "G", "H", "I", "J", "K", "L", "M",
                "N", "O", "P", "Q", "R", "S", "T", "U", "V", "W", "X", "Y", "Z">>

LowerChars == <<"a", "b", "c", "d", "e", "f", "g", "h", "i", "j", "k", "l", "m",
                "n", "o", "p", "q", "r", "s", "t", "u", "v", "w", "x", "y", "z">>

\* String.prototype.toLowerCase, one character.
LowerChar(c) ==
    IF \E i \in 1..Len(UpperChars) : UpperChars[i] = c
    THEN LowerChars[CHOOSE i \in 1..Len(UpperChars) : UpperChars[i] = c]
    ELSE c

\* String.prototype.toLowerCase.
ToLowerCase(s) == [i \in 1..Len(s) |-> LowerChar(s[i])]

\* String.prototype.startsWith.
StartsWith(s, p) == Len(p) <= Len(s) /\ SubSeq(s, 1, Len(p)) = p

\* String.prototype.endsWith.
EndsWith(s, p) == Len(p) <= Len(s) /\ SubSeq(s, Len(s) - Len(p) + 1, Len(s)) = p

\* String.prototype.includes.
Includes(s, p) ==
    \E i \in 1..(Len(s) - Len(p) + 1) : SubSeq(s, i, i + Len(p) - 1) = p

\* The characters String.prototype.trim removes (those that occur in the model).
WhiteSpace == {" ", "\r", "\n", "\t"}

RECURSIVE TrimStart(_)
TrimStart(s) ==
    IF s # <<>> /\ Head(s) \in WhiteSpace THEN TrimStart(Tail(s)) ELSE s

RECURSIVE TrimEnd(_)
TrimEnd(s) ==
    IF s # <<>> /\ s[Len(s)] \in WhiteSpace
    THEN TrimEnd(SubSeq(s, 1, Len(s) - 1))
    ELSE s

\* String.prototype.trim.
Trim(s) == TrimEnd(TrimStart(s))

\* String.prototype.split with a one-character separator.
RECURSIVE Split(_, _)
Split(s, sep) ==
    IF \E i \in 1..Len(s) : s[i] = sep
    THEN LET i == CHOOSE k \in 1..Len(s) :
                      s[k] = sep /\ \A j \in 1..(k - 1) : s[j] # sep
         IN  <<SubSeq(s, 1, i - 1)>> \o Split(SubSeq(s, i + 1, Len(s)), sep)
    ELSE <<s>>

\* Array indexing a[k] with a zero-based index k: undefined past the end.
At(a, k) == IF k + 1 <= Len(a) THEN a[k + 1] ELSE Undefined

\* Array.prototype.flat on an array of arrays.
RECURSIVE Flat(_)
Flat(a) == IF a = <<>> THEN <<>> ELSE Head(a) \o Flat(Tail(a))

\* Array.prototype.find with the predicate "starts with p": undefined if none.
RECURSIVE FindStartsWith(_, _)
FindStartsWith(a, p) ==
    IF a = <<>> THEN Undefined
    ELSE IF StartsWith(Head(a), p) THEN Head(a)
    ELSE FindStartsWith(Tail(a), p)

(***************************************************************************)
(* Lookup tables of the service.                                           *)
(***************************************************************************)
\* A part of the role keyword list (the list holds some two hundred words).
roleKeywords ==
    { <<"a", "d", "m", "i", "n">>,
      <<"s", "u", "p", "p", "o", "r", "t">>,
      <<"i", "n", "f", "o">>,
      <<"h", "e", "l", "p">>,
      <<"s", "a", "l", "e", "s">>,
      <<"h", "r">>,
      <<"i", "t">> }

freeEmailProviders ==
    { <<"g", "m", "a", "i", "l", ".", "c", "o", "m">>,
      <<"y", "a", "h", "o", "o", ".", "c", "o", "m">>,
      <<"o", "u", "t", "l", "o", "o", "k", ".", "c", "o", "m">>,
      <<"h", "o", "t", "m", "a", "i", "l", ".", "c", "o", "m">>,
      <<"i", "c", "l", "o", "u", "d", ".", "c", "o", "m">>,
      <<"m", "a", "i", "l", ".", "c", "o", "m">>,
      <<"a", "o", "l", ".", "c", "o", "m">>,
      <<"z", "o", "h", "o", ".", "c", "o", "m">> }

\* The disposable-domain list (lib/blacklist.json): one domain stands for it.
blacklist == { <<"y", "o", "p", "m", "a", "i", "l", ".", "c", "o", "m">> }

(***************************************************************************)
(* Domain classification.                                                  *)
(***************************************************************************)
\* checkFreeOrPaid reads email.split('@')[1].toLowerCase(): a TypeError when
\* the address holds no '@'.
checkFreeOrPaidThrows(email) == At(Split(email, "@"), 1) = Undefined

checkFreeOrPaid(email) ==
    LET domain == ToLowerCase(At(Split(email, "@"), 1))
    IN  IF domain \in freeEmailProviders THEN "Free" ELSE "Paid"

\* isRoleEmail with a keyword matching anywhere in the local part.
isRoleEmailSubstring(email) ==
    LET localPart == ToLowerCase(At(Split(email, "@"), 0))
    IN  \E keyword \in roleKeywords : Includes(localPart, keyword)

isRoleEmail(email) ==
    LET localPart == ToLowerCase(At(Split(email, "@"), 0))
    IN  \E keyword \in roleKeywords :
            \/ localPart = keyword
            \/ StartsWith(localPart, keyword \o <<".">>)
            \/ EndsWith(localPart, <<".">> \o keyword)
            \/ Includes(localPart, <<".">> \o keyword \o <<".">>)
            \/ Includes(localPart, <<"-">> \o keyword)
            \/ Includes(localPart, keyword \o <<"-">>)
            \/ Includes(localPart, <<"_">> \o keyword)
            \/ Includes(localPart, keyword \o <<"_">>)

isBlacklisted(email) == At(Split(email, "@"), 1) \in blacklist

\* The exchange host names of the records, in the records' order.
MxExchanges(mxRecordss) == [i \in 1..Len(mxRecordss) |-> mxRecordss[i].exchange]

\* Array.prototype.some with the predicate "includes p".
SomeIncludes(hosts, p) == \E i \in 1..Len(hosts) : Includes(hosts[i], p)

\* extractMxRecords looking at the first exchange only.
extractMxRecordsFirstOnly(mxRecordss) ==
    LET mxRecords == MxExchanges(mxRecordss)
        first == IF mxRecords = <<>> THEN <<>> ELSE <<mxRecords[1]>>
        provider ==
            IF SomeIncludes(first, <<"g", "o", "o", "g", "l", "e", ".", "c", "o", "m">>)
            THEN "Google"
            ELSE IF SomeIncludes(first, <<"o", "u", "t", "l", "o", "o", "k", ".", "c", "o", "m">>)
            THEN "Microsoft"
            ELSE IF SomeIncludes(first, <<"y", "a", "h", "o", "o", "d", "n", "s", ".", "n", "e", "t">>)
            THEN "Yahoo"
            ELSE IF SomeIncludes(first, <<"c", "l", "o", "u", "d", "f", "l", "a", "r", "e", ".", "n", "e", "t">>)
            THEN "CloudflareEmailRouting"
            ELSE "Unknown"
    IN  [mxRecords |-> mxRecords, provider |-> provider]

extractMxRecords(mxRecordss) ==
    LET mxRecords == MxExchanges(mxRecordss)
        provider ==
            IF SomeIncludes(mxRecords, <<"g", "o", "o", "g", "l", "e", ".", "c", "o", "m">>)
            THEN "Google"
            ELSE IF \/ SomeIncludes(mxRecords,
                          <<"o", "u", "t", "l", "o", "o", "k", ".", "c", "o", "m">>)
                    \/ SomeIncludes(mxRecords,
                          <<"p", "r", "o", "t", "e", "c", "t", "i", "o", "n", ".",
                            "o", "u", "t", "l", "o", "o", "k", ".", "c", "o", "m">>)
            THEN "Microsoft"
            ELSE IF SomeIncludes(mxRecords,
                          <<"y", "a", "h", "o", "o", "d", "n", "s", ".", "n", "e", "t">>)
            THEN "Yahoo"
            ELSE IF SomeIncludes(mxRecords,
                          <<"c", "l", "o", "u", "d", "f", "l", "a", "r", "e", ".", "n", "e", "t">>)
            THEN "CloudflareEmailRouting"
            ELSE "Unknown"
    IN  [mxRecords |-> mxRecords, provider |-> provider]

(***************************************************************************)
(* DNS resolution.                                                         *)
(***************************************************************************)
\* The settled promise of a DNS lookup: resolved with a value, or rejected.
Resolved(v) == [ok |-> TRUE, value |-> v]

Rejected == [ok |-> FALSE]

\* resolveMx / resolveTxt called with the domain of an address: the call
\* throws on an undefined host name, otherwise the resolver's answer stands.
Lookup(domain, answer) == IF domain = Undefined THEN Rejected ELSE answer

\* verifyEmailDns with one try block around the three lookups: the first
\* failure ends the resolution.
verifyEmailDnsOneTry(email, mxAnswer, txtAnswer, dmarcAnswer) ==
    LET domain == At(Split(email, "@"), 1)
        mx     == Lookup(domain, mxAnswer)
        txt    == IF mx.ok THEN Lookup(domain, txtAnswer) ELSE Rejected
        dmarc  == IF txt.ok THEN dmarcAnswer ELSE Rejected
        spfRecord   == IF txt.ok
                       THEN FindStartsWith(Flat(txt.value), <<"v", "=", "s", "p", "f", "1">>)
                       ELSE Undefined
        dmarcRecord == IF dmarc.ok
                       THEN FindStartsWith(Flat(dmarc.value),
                                           <<"v", "=", "D", "M", "A", "R", "C", "1">>)
                       ELSE Undefined
    IN  [ hasMxRecord |-> IF mx.ok THEN Len(mx.value) > 0 ELSE FALSE,
          hasSPF      |-> spfRecord # Undefined,
          hasDMARC    |-> dmarcRecord # Undefined,
          mxRecords   |-> IF mx.ok THEN mx.value ELSE <<>>,
          spfRecord   |-> spfRecord,
          dmarcRecord |-> dmarcRecord,
          errors      |-> IF ~mx.ok THEN <<"MX lookup failed">>
                          ELSE IF ~txt.ok THEN <<"SPF lookup failed">>
                          ELSE IF ~dmarc.ok THEN <<"DMARC lookup failed">>
                          ELSE <<>> ]

verifyEmailDns(email, mxAnswer, txtAnswer, dmarcAnswer) ==
    LET domain == At(Split(email, "@"), 1)
        mx     == Lookup(domain, mxAnswer)
        txt    == Lookup(domain, txtAnswer)
        \* the host name "_dmarc." + domain is always a string
        dmarc  == dmarcAnswer
        spfRecord   == IF txt.ok
                       THEN FindStartsWith(Flat(txt.value), <<"v", "=", "s", "p", "f", "1">>)
                       ELSE Undefined
        dmarcRecord == IF dmarc.ok
                       THEN FindStartsWith(Flat(dmarc.value),
                                           <<"v", "=", "D", "M", "A", "R", "C", "1">>)
                       ELSE Undefined
    IN  [ hasMxRecord |-> IF mx.ok THEN Len(mx.value) > 0 ELSE FALSE,
          hasSPF      |-> spfRecord # Undefined,
          hasDMARC    |-> dmarcRecord # Undefined,
          mxRecords   |-> IF mx.ok THEN mx.value ELSE <<>>,
          spfRecord   |-> spfRecord,
          dmarcRecord |-> dmarcRecord,
          errors      |-> (IF mx.ok THEN <<>> ELSE <<"MX lookup failed">>)
                          \o (IF txt.ok THEN <<>> ELSE <<"SPF lookup failed">>)
                          \o (IF dmarc.ok THEN <<>> ELSE <<"DMARC lookup failed">>) ]

(***************************************************************************)
(* The environment: the targets callers submit, the answers of the DNS     *)
(* resolver and the data a mail server delivers.                           *)
(***************************************************************************)
\* bob@corp.io: an ordinary address.
PlainTarget == <<"b", "o", "b", "@", "c", "o", "r", "p", ".", "i", "o">>

\* info@yopmail.com: an address of a disposable domain.
DisposableTarget ==
    <<"i", "n", "f", "o", "@", "y", "o", "p", "m", "a", "i", "l", ".", "c", "o", "m">>

\* bobcorp.io: a string without '@'.
MalformedTarget == <<"b", "o", "b", "c", "o", "r", "p", ".", "i", "o">>

Targets == {PlainTarget, DisposableTarget, MalformedTarget}

\* The lists of targets of a verify-many request, of every length up to n.
TargetLists(n) == UNION {[1..k -> Targets] : k \in 0..n}

Mx1 == [exchange |-> <<"m", "x", "1", ".", "c", "o", "r", "p", ".", "i", "o">>,
        priority |-> 10]

Mx2 == [exchange |-> <<"m", "x", "2", ".", "c", "o", "r", "p", ".", "i", "o">>,
        priority |-> 20]

MxGoogle ==
    [exchange |-> <<"a", "s", "p", "m", "x", ".", "l", ".", "g", "o", "o", "g", "l", "e",
                    ".", "c", "o", "m">>,
     priority |-> 1]

MxOutlook ==
    [exchange |-> <<"m", "x", ".", "o", "u", "t", "l", "o", "o", "k", ".", "c", "o", "m">>,
     priority |-> 0]

MxYahoo ==
    [exchange |-> <<"m", "x", ".", "y", "a", "h", "o", "o", "d", "n", "s", ".", "n", "e", "t">>,
     priority |-> 5]

MxCloudflare ==
    [exchange |-> <<"m", "x", ".", "c", "l", "o", "u", "d", "f", "l", "a", "r", "e", ".",
                    "n", "e", "t">>,
     priority |-> 30]

\* The MX records a domain may publish.
MxPool == {Mx1, Mx2, MxGoogle, MxOutlook, MxYahoo, MxCloudflare}

\* The most MX records of one answer.
MaxMx == 2

\* What resolveMx may settle with; the resolver delivers records in any order.
MxAnswers ==
    {Rejected} \cup {Resolved(s) : s \in UNION {[1..k -> MxPool] : k \in 0..MaxMx}}

\* A TXT answer holding an SPF policy.
TxtAnswers1 == Resolved(<< <<<<"v", "=", "s", "p", "f", "1">>>> >>)

\* A TXT answer of the _dmarc name holding a DMARC policy.
DmarcAnswers1 == Resolved(<< <<<<"v", "=", "D", "M", "A", "R", "C", "1">>>> >>)

\* What resolveTxt(domain) may settle with.
TxtAnswers == {Rejected, Resolved(<<>>), TxtAnswers1}

\* What resolveTxt("_dmarc." + domain) may settle with.
DmarcAnswers == {Rejected, Resolved(<<>>), DmarcAnswers1}

\* The lookup outcomes a verification meets: every lookup failing, no MX
\* record, one MX record, and two MX records delivered out of priority order.
DnsScenarios ==
    { <<Rejected, Rejected, Rejected>>,
      <<Resolved(<<>>), TxtAnswers1, DmarcAnswers1>>,
      <<Resolved(<<Mx1>>), Rejected, DmarcAnswers1>>,
      <<Resolved(<<Mx2, Mx1>>), TxtAnswers1, Rejected>> }

CRLF == <<"\r", "\n">>

\* Whole reply lines: a positive reply, a plain rejection, a rejection that
\* names a block, and a transient failure.
ReplyLines ==
    { <<"2", "5", "0", "\r", "\n">>,
      <<"5", "5", "0", "\r", "\n">>,
      <<"5", "5", "0", " ", "b", "l", "o", "c", "k", "e", "d", "\r", "\n">>,
      <<"4", "5", "1", "\r", "\n">> }

\* The data events a server may deliver: the whole reply lines, a greeting,
\* and a piece of a line that carries no line terminator.
Chunks ==
    ReplyLines \cup
        { <<"2", "2", "0", "\r", "\n">>,
          <<"2", "5", "0">>,
          <<"4", "2", "1", " ", "S", "e", "r", "v", "i", "c", "e", " ", "u", "n", "a",
            "v", "a", "i", "l", "a", "b", "l", "e", "\r", "\n">> }

(***************************************************************************)
(* State.                                                                  *)
(***************************************************************************)
VARIABLES
    emailsModel,  \* the stored Emails documents (email is a unique key)
    calls,        \* the number of API calls made so far
    api,          \* the API call in progress: "none", "one" or "many"
    emails,       \* verifyManyEmail: data.emails
    idx,          \* verifyManyEmail: position of the for loop (1-based), 0 if none
    dataa,        \* verifyManyEmail: the results pushed so far
    loop,         \* verifyManyEmail: "none", "verify", "sleep" or "returned"
    slept,        \* verifyManyEmail: the milliseconds spent in sleep so far
    inFlight,     \* the loop positions whose verifyOneEmail call has not returned
    pc,           \* verifyOneEmail: "idle", "dns", "info", "probe", "create",
                  \* "returned" or "raised"
    check,        \* verifyOneEmail: data.check
    dns,          \* verifyOneEmail: the result of verifyEmailDns
    info,         \* verifyOneEmail: the result of getInfoEmail
    pending,      \* verifyOneEmail: the document handed to emailsModel.create
    createFailed, \* verifyOneEmail: emailsModel.create rejected
    res,          \* verifyOneEmail: the value returned
    socket,       \* verifyEmail: "none", "open", "closed" (by the peer) or "destroyed"
    socketHost,   \* verifyEmail: the host the socket was connected to
    buffer,       \* verifyEmail: buffer
    step,         \* verifyEmail: step
    timeoutId,    \* verifyEmail: "none", "armed", "cleared" or "fired"
    smtp,         \* verifyEmail: the value the promise resolved with
    written,      \* verifyEmail: the commands written to the socket
    replies,      \* verifyEmail: the responses the data handler has dispatched on
    resolvedBy,   \* verifyEmail: "none", "nomx", "reply", "error" or "timeout"
    chunks,       \* verifyEmail: the number of data events delivered
    socketId,     \* verifyEmail: the connection the local socket refers to (0: none)
    connections,  \* the connections opened so far: who opened and who used each
    probes,       \* the number of verifyEmail calls that have called tls.connect
    lookups,      \* verifyEmailDns: what resolveMx and the two resolveTxt settled with
    bpc,          \* check...Account: the await the call is at, "idle" or "done"
    account,      \* check...Account: "Google", "Yahoo" or "Microsoft" ("none": no call)
    browser,      \* check...Account: the local browser, "null" or "set"
    context,      \* check...Account: the local context, "null" or "set"
    page,         \* check...Account: the local page, "null" or "set"
    session,      \* the browser, context and page that are open
    outcome,      \* check...Account: the value the try or catch block returns
    settled,      \* check...Account: "none", "returned" or "raised"
    bcalls,       \* the number of check...Account calls made
    inspection,   \* check...Account: how the inspection of the page went, and
                  \* the texts that were visible
    usersModel,   \* the users collection
    upc,          \* createUser, per caller: "idle", "findOne", "create", "save", "done"
    uemail,       \* createUser, per caller: email
    uknown,       \* createUser, per caller: the email was registered when the call began
    ures,         \* createUser, per caller: the value returned
    uuser,        \* createUser, per caller: the user usersModel.create resolved with
    uerr,         \* createUser, per caller: the message the catch block logged
    ucalls,       \* the number of createUser calls made
    hpc,          \* verifyEmailWithDnsResult: "idle", "handshake" or "returned"
    hemail,       \* verifyEmailWithDnsResult: email
    sortedMxRecords, \* verifyEmailWithDnsResult: sortedMxRecords (dnsResult.mxRecords itself)
    hi,           \* verifyEmailWithDnsResult: the position of mxRecord in sortedMxRecords
    contacted,    \* verifyEmailWithDnsResult: the hosts smtpHandshake was called with
    hres,         \* verifyEmailWithDnsResult: the value returned
    hsocket,      \* smtpHandshake: "none", "open", "ended", "closed" (by the peer), "destroyed"
    handshakeState, \* smtpHandshake: handshakeState
    hwritten,     \* smtpHandshake: the commands written to the socket
    hpromise,     \* smtpHandshake: "none", "pending", "true", "false" or "rejected"
    hcalls        \* the number of verifyEmailWithDnsResult calls made

manyVars == <<emails, idx, dataa, loop, slept, inFlight>>

oneVars == <<pc, check, dns, info, pending, createFailed, res>>

probeVars == <<socket, socketHost, buffer, step, timeoutId, smtp, written, replies,
               resolvedBy, chunks>>

netVars == <<socketId, connections, probes>>

browserVars == <<bpc, account, browser, context, page, session, outcome, settled,
                 bcalls, inspection>>

userVars == <<usersModel, upc, uemail, uknown, ures, uuser, uerr, ucalls>>

handshakeVars == <<hpc, hemail, sortedMxRecords, hi, contacted, hres, hsocket,
                   handshakeState, hwritten, hpromise, hcalls>>

pipelineVars == <<emailsModel, calls, api, manyVars, oneVars, probeVars, netVars, lookups>>

vars == <<pipelineVars, browserVars, userVars, handshakeVars>>

\* The callers that may have a createUser call in progress at a time.
Callers == {"first", "second"}

\* No createUser call has been made.
InitUsers ==
    /\ usersModel = {}
    /\ upc = [u \in Callers |-> "idle"]
    /\ uemail = [u \in Callers |-> "none"]
    /\ uknown = [u \in Callers |-> FALSE]
    /\ ures = [u \in Callers |-> NoResult]
    /\ uuser = [u \in Callers |-> NoResult]
    /\ uerr = [u \in Callers |-> "none"]
    /\ ucalls = 0

\* No verifyEmailWithDnsResult call has been made.
InitHandshake ==
    /\ hpc = "idle"
    /\ hemail = Undefined
    /\ sortedMxRecords = <<>>
    /\ hi = 0
    /\ contacted = <<>>
    /\ hres = NoResult
    /\ hsocket = "none"
    /\ handshakeState = 0
    /\ hwritten = <<>>
    /\ hpromise = "none"
    /\ hcalls = 0

Init ==
    /\ emailsModel = {}
    /\ calls = 0
    /\ api = "none"
    /\ emails = <<>>
    /\ idx = 0
    /\ dataa = <<>>
    /\ loop = "none"
    /\ slept = 0
    /\ inFlight = {}
    /\ pc = "idle"
    /\ check = Undefined
    /\ dns = NoResult
    /\ info = NoResult
    /\ pending = NoResult
    /\ createFailed = FALSE
    /\ res = NoResult
    /\ socket = "none"
    /\ socketHost = Undefined
    /\ buffer = <<>>
    /\ step = 0
    /\ timeoutId = "none"
    /\ smtp = NoResult
    /\ written = <<>>
    /\ replies = <<>>
    /\ resolvedBy = "none"
    /\ chunks = 0
    /\ socketId = 0
    /\ connections = <<>>
    /\ probes = 0
    /\ lookups = <<>>
    /\ bpc = "idle"
    /\ account = "none"
    /\ browser = "null"
    /\ context = "null"
    /\ page = "null"
    /\ session = {}
    /\ outcome = NoResult
    /\ settled = "none"
    /\ bcalls = 0
    /\ inspection = NotInspected
    /\ InitUsers
    /\ InitHandshake

(***************************************************************************)
(* verifyOneEmail: from the call to the first await (the DNS lookups of    *)
(* verifyEmailDns are then in flight).                                     *)
(***************************************************************************)
EnterVerifyOneEmail(target) ==
    /\ pc' = "dns"
    /\ check' = target
    /\ dns' = NoResult
    /\ info' = NoResult
    /\ pending' = NoResult
    /\ createFailed' = FALSE
    /\ res' = NoResult
    /\ socket' = "none"
    /\ socketHost' = Undefined
    /\ buffer' = <<>>
    /\ step' = 0
    /\ timeoutId' = "none"
    /\ smtp' = NoResult
    /\ written' = <<>>
    /\ replies' = <<>>
    /\ resolvedBy' = "none"
    /\ chunks' = 0
    /\ socketId' = 0
    /\ UNCHANGED <<connections, probes>>
    /\ lookups' = <<>>

\* The catch block of verifyOneEmail letting the exception through.
VerifyOneRethrown == "raised"

\* The catch block of verifyOneEmail: the message is logged, nothing is thrown
\* again and the function ends without a return value.
VerifyOneCaught == "returned"

\* The three lookups of verifyEmailDns have settled.  verifyOneEmail goes on
\* into getInfoEmail, whose checkFreeOrPaid throws on an address without '@':
\* the catch block of verifyOneEmail logs the error and the call returns
\* undefined.  Otherwise getInfoEmail awaits verifyEmailDns a second time.
DnsResolved(mxAnswer, txtAnswer, dmarcAnswer) ==
    /\ pc = "dns"
    /\ dns' = verifyEmailDns(check, mxAnswer, txtAnswer, dmarcAnswer)
    /\ IF checkFreeOrPaidThrows(check)
       THEN /\ pc' = VerifyOneCaught
            /\ res' = NoResult
       ELSE /\ pc' = "info"
            /\ UNCHANGED res
    /\ UNCHANGED <<emailsModel, calls, api, manyVars, check, info, pending,
                   createFailed, probeVars>>
    /\ UNCHANGED netVars
    /\ lookups' = <<mxAnswer, txtAnswer, dmarcAnswer>>
    /\ UNCHANGED <<browserVars, userVars, handshakeVars>>

getInfoEmail(email, records) ==
    LET x == extractMxRecords(records)
    IN  [ free       |-> checkFreeOrPaid(email),
          role       |-> IF isRoleEmail(email) THEN "Yes" ELSE "No",
          mxRecords  |-> x.mxRecords,
          provider   |-> x.provider,
          disposable |-> isBlacklisted(email) ]

\* DisposableDoc with the score and state verifyOneEmail starts from.
DisposableDocDefaults(email, i) ==
    [ email |-> email, score |-> 0, state |-> "Undeliverable", free |-> i.free,
      role |-> i.role, disposable |-> i.disposable, mxRecords |-> i.mxRecords,
      SmtpProvider |-> i.provider ]

\* The document verifyOneEmail creates for a disposable target (time omitted).
DisposableDoc(email, i) ==
    [ email |-> email, score |-> 5, state |-> "Risky", free |-> i.free,
      role |-> i.role, disposable |-> i.disposable, mxRecords |-> i.mxRecords,
      SmtpProvider |-> i.provider ]

\* ProbedDoc with the score raised and the state left as it started.
ProbedDocScoreOnly(email, i, exists) ==
    [ email |-> email,
      score |-> IF exists THEN 99 ELSE 0,
      state |-> "Undeliverable",
      free |-> i.free, role |-> i.role, disposable |-> i.disposable,
      mxRecords |-> i.mxRecords, SmtpProvider |-> i.provider ]

\* The document verifyOneEmail creates after the SMTP probe (time omitted).
ProbedDoc(email, i, exists) ==
    [ email |-> email,
      score |-> IF exists THEN 99 ELSE 0,
      state |-> IF exists THEN "Deliverable" ELSE "Undeliverable",
      free |-> i.free, role |-> i.role, disposable |-> i.disposable,
      mxRecords |-> i.mxRecords, SmtpProvider |-> i.provider ]

\* NoMx letting every DNS result through.
NoMxUnguarded(dnsResult) == FALSE

\* The guard at the head of verifyEmail.
NoMx(dnsResult) == ~dnsResult.hasMxRecord \/ Len(dnsResult.mxRecords) = 0

\* The host verifyEmail connects to.
ConnectHost(dnsResult) ==
    <<"s", "m", "t", "p", ".", "o", "f", "f", "i", "c", "e", "3", "6", "5", ".", "c", "o", "m">>

\* tlsConnect handing out the connection opened first, if there is one.
tlsConnectPooled(cs, p) ==
    IF cs = <<>> THEN <<[openedBy |-> p, users |-> {p}]>> ELSE cs

\* tls.connect: a new connection, opened by probe p.
tlsConnect(cs, p) == Append(cs, [openedBy |-> p, users |-> {p}])

\* Probe p writes to, or destroys, the connection its socket refers to.
Use(cs, id, p) == [cs EXCEPT ![id].users = @ \cup {p}]

\* The second verifyEmailDns of getInfoEmail has settled (its result is not
\* used).  A disposable target is stored at once; otherwise verifyEmail is
\* called: without an MX record it returns at once, else it opens the socket
\* and arms the timer.
InfoResolved ==
    /\ pc = "info"
    /\ info' = getInfoEmail(check, dns.mxRecords)
    /\ IF info'.disposable
       THEN /\ pc' = "create"
            /\ pending' = DisposableDoc(check, info')
            /\ UNCHANGED <<probeVars, netVars>>
       ELSE /\ pc' = "probe"
            /\ UNCHANGED pending
            /\ IF NoMx(dns)
               THEN /\ smtp' = [success |-> FALSE, exists |-> FALSE,
                                message |-> "No MX records found for domain"]
                    /\ resolvedBy' = "nomx"
                    /\ UNCHANGED <<socket, socketHost, buffer, step, timeoutId,
                                   written, replies, chunks, netVars>>
               ELSE /\ socket' = "open"
                    /\ socketHost' = ConnectHost(dns)
                    /\ probes' = probes + 1
                    /\ connections' = tlsConnect(connections, probes')
                    /\ socketId' = Len(connections')
                    /\ timeoutId' = "armed"
                    /\ UNCHANGED <<buffer, step, smtp, written, replies,
                                   resolvedBy, chunks>>
    /\ UNCHANGED <<emailsModel, calls, api, manyVars, check, dns, createFailed, res>>
    /\ UNCHANGED lookups
    /\ UNCHANGED <<browserVars, userVars, handshakeVars>>

\* closeConnection without clearTimeout.
closeConnectionNoClear(exists, message) ==
    /\ timeoutId' = timeoutId
    /\ written' = Append(written, <<"QUIT">>)
    /\ socket' = "destroyed"
    /\ smtp' = IF smtp = NoResult
               THEN [success |-> TRUE, exists |-> exists, message |-> message]
               ELSE smtp

(***************************************************************************)
(* verifyEmail: the SMTP probe.                                            *)
(***************************************************************************)
\* closeConnection without the call of resolve.
closeConnectionNoResolve(exists, message) ==
    /\ timeoutId' = "cleared"
    /\ written' = Append(written, <<"QUIT">>)
    /\ socket' = "destroyed"
    /\ smtp' = smtp

\* closeConnection without socket.destroy().
closeConnectionNoDestroy(exists, message) ==
    /\ timeoutId' = "cleared"
    /\ written' = Append(written, <<"QUIT">>)
    /\ socket' = socket
    /\ smtp' = IF smtp = NoResult
               THEN [success |-> TRUE, exists |-> exists, message |-> message]
               ELSE smtp

\* closeConnection with the success flag stored as exists.
closeConnectionSuccessAsExists(exists, message) ==
    /\ timeoutId' = "cleared"
    /\ written' = Append(written, <<"QUIT">>)
    /\ socket' = "destroyed"
    /\ smtp' = IF smtp = NoResult
               THEN [success |-> TRUE, exists |-> TRUE, message |-> message]
               ELSE smtp

\* On the error path socket.write lands on a socket the error has already
\* destroyed: the call is made, nothing is sent.
closeConnection(exists, message) ==
    /\ timeoutId' = "cleared"
    /\ written' = Append(written, <<"QUIT">>)
    /\ socket' = "destroyed"
    /\ smtp' = IF smtp = NoResult
               THEN [success |-> TRUE, exists |-> exists, message |-> message]
               ELSE smtp

\* RcptReply with the test for 550 ahead of the test for a block.
RcptReply550First(response) ==
    IF StartsWith(response, <<"2", "5", "0">>)
    THEN [terminal |-> TRUE, exists |-> TRUE, message |-> "Email exists"]
    ELSE IF StartsWith(response, <<"5", "5", "0">>)
    THEN [terminal |-> TRUE, exists |-> FALSE, message |-> "Email does not exist"]
    ELSE IF \/ Includes(response, <<"b", "l", "o", "c", "k", "e", "d">>)
            \/ Includes(response, <<"S", "e", "r", "v", "i", "c", "e", " ", "u", "n",
                                    "a", "v", "a", "i", "l", "a", "b", "l", "e">>)
    THEN [terminal |-> TRUE, exists |-> FALSE,
          message |-> "Verification failed: Server blocked our request"]
    ELSE [terminal |-> TRUE, exists |-> FALSE, message |-> "Unexpected response"]

\* RcptReply comparing the whole response with "250".
RcptReplyExact(response) ==
    IF response = <<"2", "5", "0">>
    THEN [terminal |-> TRUE, exists |-> TRUE, message |-> "Email exists"]
    ELSE IF \/ Includes(response, <<"b", "l", "o", "c", "k", "e", "d">>)
            \/ Includes(response, <<"S", "e", "r", "v", "i", "c", "e", " ", "u", "n",
                                    "a", "v", "a", "i", "l", "a", "b", "l", "e">>)
    THEN [terminal |-> TRUE, exists |-> FALSE,
          message |-> "Verification failed: Server blocked our request"]
    ELSE IF StartsWith(response, <<"5", "5", "0">>)
    THEN [terminal |-> TRUE, exists |-> FALSE, message |-> "Email does not exist"]
    ELSE [terminal |-> TRUE, exists |-> FALSE, message |-> "Unexpected response"]

\* case 4 of the data handler: the reply to RCPT TO.
RcptReply(response) ==
    IF StartsWith(response, <<"2", "5", "0">>)
    THEN [terminal |-> TRUE, exists |-> TRUE, message |-> "Email exists"]
    ELSE IF \/ Includes(response, <<"b", "l", "o", "c", "k", "e", "d">>)
            \/ Includes(response, <<"S", "e", "r", "v", "i", "c", "e", " ", "u", "n",
                                    "a", "v", "a", "i", "l", "a", "b", "l", "e">>)
    THEN [terminal |-> TRUE, exists |-> FALSE,
          message |-> "Verification failed: Server blocked our request"]
    ELSE IF StartsWith(response, <<"5", "5", "0">>)
    THEN [terminal |-> TRUE, exists |-> FALSE, message |-> "Email does not exist"]
    ELSE [terminal |-> TRUE, exists |-> FALSE, message |-> "Unexpected response"]

\* The command written in cases 0 to 3 after a reply beginning "2".
Command(s, email) ==
    LET domain == At(Split(email, "@"), 1)
    IN  CASE s = 0 -> <<"EHLO", domain>>
          [] s = 1 -> <<"STARTTLS">>
          [] s = 2 -> <<"MAIL FROM", <<"v", "e", "r", "i", "f", "y", "@">> \o domain>>
          [] s = 3 -> <<"RCPT TO", email>>

\* The message of the failure in cases 0 to 3.
FailureMessage(s) ==
    CASE s = 0 -> "Server not ready"
      [] s = 1 -> "EHLO failed"
      [] s = 2 -> "STARTTLS failed"
      [] s = 3 -> "MAIL FROM failed"

\* Transition without the test of the response in cases 0 to 3.
TransitionNoCheck(s, response, email) ==
    IF s < 4
    THEN [terminal |-> FALSE, command |-> Command(s, email)]
    ELSE RcptReply(response)

\* The switch of the data handler: what the probe does with a response in a step.
Transition(s, response, email) ==
    IF s < 4
    THEN IF StartsWith(response, <<"2">>)
         THEN [terminal |-> FALSE, command |-> Command(s, email)]
         ELSE [terminal |-> TRUE, exists |-> FALSE, message |-> FailureMessage(s)]
    ELSE RcptReply(response)

\* socket.on('data'): a destroyed socket delivers no data.
SocketData(chunk) ==
    /\ pc = "probe"
    /\ socket = "open"
    /\ chunks < MaxChunks
    /\ chunks' = chunks + 1
    /\ LET buf == buffer \o chunk
       IN  IF Includes(buf, CRLF)
           THEN LET response == Trim(buf)
                    t == Transition(step, response, check)
                IN  /\ buffer' = <<>>
                    /\ replies' = Append(replies, response)
                    /\ IF t.terminal
                       THEN /\ closeConnection(t.exists, t.message)
                            /\ resolvedBy' = "reply"
                            /\ UNCHANGED step
                       ELSE /\ written' = Append(written, t.command)
                            /\ step' = step + 1
                            /\ UNCHANGED <<socket, timeoutId, smtp, resolvedBy>>
           ELSE /\ buffer' = buf
                /\ UNCHANGED <<socket, step, timeoutId, smtp, written, replies,
                               resolvedBy>>
    /\ UNCHANGED <<emailsModel, calls, api, manyVars, oneVars, socketHost>>
    /\ connections' = IF Includes(buffer \o chunk, CRLF)
                       THEN Use(connections, socketId, probes)
                       ELSE connections
    /\ UNCHANGED <<socketId, probes>>
    /\ UNCHANGED lookups
    /\ UNCHANGED <<browserVars, userVars, handshakeVars>>

\* socket.on('error'): a connect or socket error.
SocketError ==
    /\ pc = "probe"
    /\ socket = "open"
    /\ closeConnection(FALSE, "Connection error")
    /\ resolvedBy' = "error"
    /\ UNCHANGED <<emailsModel, calls, api, manyVars, oneVars, socketHost, buffer,
                   step, replies, chunks>>
    /\ connections' = Use(connections, socketId, probes)
    /\ UNCHANGED <<socketId, probes>>
    /\ UNCHANGED lookups
    /\ UNCHANGED <<browserVars, userVars, handshakeVars>>

\* The peer ends the connection without an error: no handler is registered
\* for 'end' or 'close'.  (The handlers of 'connect' and 'timeout' only log,
\* and are left out.)
PeerClose ==
    /\ pc = "probe"
    /\ socket = "open"
    /\ socket' = "closed"
    /\ UNCHANGED <<emailsModel, calls, api, manyVars, oneVars, socketHost, buffer,
                   step, timeoutId, smtp, written, replies, resolvedBy, chunks>>
    /\ UNCHANGED netVars
    /\ UNCHANGED lookups
    /\ UNCHANGED <<browserVars, userVars, handshakeVars>>

\* TimeoutResult with the success flag closeConnection sets.
TimeoutResultCompleted ==
    [success |-> TRUE, exists |-> FALSE, message |-> "Connection timeout"]

\* The value the timer callback resolves the promise with.
TimeoutResult ==
    [success |-> FALSE, exists |-> FALSE, message |-> "Connection timeout"]

\* The callback of setTimeout(..., timeout).
TimerFire ==
    /\ pc = "probe"
    /\ timeoutId = "armed"
    /\ timeoutId' = "fired"
    /\ socket' = "destroyed"
    /\ smtp' = IF smtp = NoResult THEN TimeoutResult ELSE smtp
    /\ resolvedBy' = "timeout"
    /\ UNCHANGED <<emailsModel, calls, api, manyVars, oneVars, socketHost, buffer,
                   step, written, replies, chunks>>
    /\ connections' = Use(connections, socketId, probes)
    /\ UNCHANGED <<socketId, probes>>
    /\ UNCHANGED lookups
    /\ UNCHANGED <<browserVars, userVars, handshakeVars>>

\* ProbeAwaited without the await: verifyOneEmail goes on to create while
\* the probe is still in progress.
ProbeAwaitedEarly ==
    /\ pc = "probe"
    /\ pending' = ProbedDoc(check, info, IF smtp = NoResult THEN FALSE ELSE smtp.exists)
    /\ pc' = "create"
    /\ UNCHANGED <<emailsModel, calls, api, manyVars, check, dns, info, createFailed,
                   res, probeVars>>
    /\ UNCHANGED netVars
    /\ UNCHANGED lookups
    /\ UNCHANGED <<browserVars, userVars, handshakeVars>>

\* verifyOneEmail resumes with the resolved value of verifyEmail and hands the
\* document to emailsModel.create.
ProbeAwaited ==
    /\ pc = "probe"
    /\ smtp # NoResult
    /\ pending' = ProbedDoc(check, info, smtp.exists)
    /\ pc' = "create"
    /\ UNCHANGED <<emailsModel, calls, api, manyVars, check, dns, info, createFailed,
                   res, probeVars>>
    /\ UNCHANGED netVars
    /\ UNCHANGED lookups
    /\ UNCHANGED <<browserVars, userVars, handshakeVars>>

\* emailsModel.create settles: the unique index on email rejects a second
\* document for an address; the catch block logs the error and verifyOneEmail
\* returns undefined.  Otherwise the stored document is returned.
CreateSettled ==
    /\ pc = "create"
    /\ IF \E d \in emailsModel : d.email = pending.email
       THEN /\ createFailed' = TRUE
            /\ res' = NoResult
            /\ pc' = VerifyOneCaught
            /\ UNCHANGED emailsModel
       ELSE /\ emailsModel' = emailsModel \cup {pending}
            /\ res' = pending
            /\ pc' = "returned"
            /\ UNCHANGED createFailed
    /\ UNCHANGED <<calls, api, manyVars, check, dns, info, pending, probeVars>>
    /\ UNCHANGED netVars
    /\ UNCHANGED lookups
    /\ UNCHANGED <<browserVars, userVars, handshakeVars>>

(***************************************************************************)
(* The API: verify-one and verify-many requests, one at a time.            *)
(***************************************************************************)
\* POST verify-one.
VerifyOneEmail(target) ==
    /\ api = "none"
    /\ calls < MaxCalls
    /\ calls' = calls + 1
    /\ api' = "one"
    /\ EnterVerifyOneEmail(target)
    /\ UNCHANGED <<emailsModel, manyVars>>
    /\ UNCHANGED <<browserVars, userVars, handshakeVars>>

\* The controller returns the value of verifyOneEmail to the client.
VerifyOneReturn ==
    /\ api = "one"
    /\ pc = "returned"
    /\ api' = "none"
    /\ pc' = "idle"
    /\ UNCHANGED <<emailsModel, calls, manyVars, check, dns, info, pending,
                   createFailed, res, probeVars>>
    /\ UNCHANGED netVars
    /\ UNCHANGED lookups
    /\ UNCHANGED <<browserVars, userVars, handshakeVars>>

\* The delay, in milliseconds, the loop of verifyManyEmail awaits after each
\* target.
SleepMs == 2000

\* A sleep that resolves at once.
sleepNoWait(t) == t

\* sleep(ms) for the delay of the loop: the time slept so far, t, once the
\* promise of sleep has resolved.
sleep(t) == t + SleepMs

\* POST verify-many: an empty list returns at once, otherwise the loop calls
\* verifyOneEmail for the first target.
VerifyManyEmail(list) ==
    /\ api = "none"
    /\ calls < MaxCalls
    /\ calls' = calls + 1
    /\ api' = "many"
    /\ emails' = list
    /\ dataa' = <<>>
    /\ slept' = 0
    /\ IF list = <<>>
       THEN /\ loop' = "returned"
            /\ idx' = 0
            /\ inFlight' = {}
            /\ UNCHANGED <<oneVars, probeVars, netVars, lookups>>
       ELSE /\ loop' = "verify"
            /\ idx' = 1
            /\ inFlight' = {1}
            /\ EnterVerifyOneEmail(list[1])
    /\ UNCHANGED emailsModel
    /\ UNCHANGED <<browserVars, userVars, handshakeVars>>

\* The awaited verifyOneEmail has returned: the result is pushed and the loop
\* awaits sleep(2000).
ManyPush ==
    /\ api = "many"
    /\ loop = "verify"
    /\ pc = "returned"
    /\ dataa' = Append(dataa, res)
    /\ inFlight' = inFlight \ {idx}
    /\ pc' = "idle"
    /\ loop' = "sleep"
    /\ UNCHANGED <<emailsModel, calls, api, emails, idx, slept, check, dns, info,
                   pending, createFailed, res, probeVars>>
    /\ UNCHANGED netVars
    /\ UNCHANGED lookups
    /\ UNCHANGED <<browserVars, userVars, handshakeVars>>

\* sleep(2000) has elapsed: the loop goes to the next target, or returns dataa.
SleepElapsed ==
    /\ api = "many"
    /\ loop = "sleep"
    /\ slept' = sleep(slept)
    /\ IF idx < Len(emails)
       THEN /\ idx' = idx + 1
            /\ inFlight' = inFlight \cup {idx + 1}
            /\ loop' = "verify"
            /\ EnterVerifyOneEmail(emails[idx + 1])
       ELSE /\ loop' = "returned"
            /\ UNCHANGED <<idx, inFlight, oneVars, probeVars, netVars, lookups>>
    /\ UNCHANGED <<emailsModel, calls, api, emails, dataa>>
    /\ UNCHANGED <<browserVars, userVars, handshakeVars>>

\* The controller returns dataa to the client.
VerifyManyReturn ==
    /\ api = "many"
    /\ loop = "returned"
    /\ api' = "none"
    /\ loop' = "none"
    /\ UNCHANGED <<emailsModel, calls, emails, idx, dataa, slept, inFlight, oneVars,
                   probeVars>>
    /\ UNCHANGED netVars
    /\ UNCHANGED lookups
    /\ UNCHANGED <<browserVars, userVars, handshakeVars>>

\* The pipeline under every API call.  The SMTP server delivers whole reply
\* lines here; ProbeSpec below adds pieces of lines and further replies.
Next ==
    \/ \E target \in Targets : VerifyOneEmail(target)
    \/ \E list \in TargetLists(MaxEmails) : VerifyManyEmail(list)
    \/ \E a \in DnsScenarios : DnsResolved(a[1], a[2], a[3])
    \/ InfoResolved
    \/ \E chunk \in ReplyLines : SocketData(chunk)
    \/ SocketError
    \/ PeerClose
    \/ TimerFire
    \/ ProbeAwaited
    \/ CreateSettled
    \/ VerifyOneReturn
    \/ ManyPush
    \/ SleepElapsed
    \/ VerifyManyReturn

Spec == Init /\ [][Next]_vars

(***************************************************************************)
(* The SMTP probe on its own: one verifyOneEmail call for an ordinary      *)
(* address, from the point where the DNS result is known, under every      *)
(* behaviour of the server, the socket and the timer.                      *)
(***************************************************************************)
InitProbe ==
    /\ emailsModel = {}
    /\ calls = 1
    /\ api = "one"
    /\ emails = <<>>
    /\ idx = 0
    /\ dataa = <<>>
    /\ loop = "none"
    /\ slept = 0
    /\ inFlight = {}
    /\ pc = "info"
    /\ check = PlainTarget
    /\ info = NoResult
    /\ pending = NoResult
    /\ createFailed = FALSE
    /\ res = NoResult
    /\ socket = "none"
    /\ socketHost = Undefined
    /\ buffer = <<>>
    /\ step = 0
    /\ timeoutId = "none"
    /\ smtp = NoResult
    /\ written = <<>>
    /\ replies = <<>>
    /\ resolvedBy = "none"
    /\ chunks = 0
    /\ socketId = 0
    /\ connections = <<>>
    /\ probes = 0
    /\ lookups \in DnsScenarios
    /\ dns = verifyEmailDns(PlainTarget, lookups[1], lookups[2], lookups[3])
    /\ bpc = "idle"
    /\ account = "none"
    /\ browser = "null"
    /\ context = "null"
    /\ page = "null"
    /\ session = {}
    /\ outcome = NoResult
    /\ settled = "none"
    /\ bcalls = 0
    /\ inspection = NotInspected
    /\ InitUsers
    /\ InitHandshake

NextProbe ==
    \/ InfoResolved
    \/ \E chunk \in Chunks : SocketData(chunk)
    \/ SocketError
    \/ PeerClose
    \/ TimerFire
    \/ ProbeAwaited

ProbeSpec == InitProbe /\ [][NextProbe]_vars

\* The event loop runs the callback of an armed timer, and resumes an async
\* function whose awaited promise has resolved.
ProbeLiveSpec ==
    InitProbe /\ [][NextProbe]_vars /\ WF_vars(TimerFire) /\ WF_vars(ProbeAwaited)

(***************************************************************************)
(* The browser probes: checkGoogleAccount, checkYahooAccount and           *)
(* checkMicrosoftAccount, each over a session of initBrowser.              *)
(***************************************************************************)
\* The texts each probe looks for on the page.
Signals ==
    [ Google    |-> {"Couldn't find your Google"},
      Yahoo     |-> {"Sorry, we don't recognize", "This account has been"},
      Microsoft |-> {"That Microsoft account doesn'", "This username may be",
                     "We couldn't find an account"} ]

\* inspectPage looking, for each probe, for the text it looks for first.
inspectPageFirstText(a, visible) ==
    IF {"Couldn't find your Google", "Sorry, we don't recognize",
        "That Microsoft account doesn'"} \cap visible # {}
    THEN [exists |-> FALSE, message |-> "Account not found"]
    ELSE [exists |-> TRUE, message |-> "Account exists"]

\* The value a probe returns for the texts visible on the page.
inspectPage(a, visible) ==
    IF a = "Google"
    THEN IF "Couldn't find your Google" \in visible
         THEN [exists |-> FALSE, message |-> "Account not found"]
         ELSE [exists |-> TRUE, message |-> "Account exists"]
    ELSE IF a = "Yahoo"
    THEN IF "Sorry, we don't recognize" \in visible
         THEN [exists |-> FALSE, message |-> "Account not found"]
         ELSE IF "This account has been" \in visible
         THEN [exists |-> FALSE, message |-> "Account desactivated"]
         ELSE [exists |-> TRUE, message |-> "Account exists"]
    ELSE IF visible # {}
         THEN [exists |-> FALSE, message |-> "Account not found"]
         ELSE [exists |-> TRUE, message |-> "Account exists"]

\* The value the outer catch block returns.
Caught == [exists |-> FALSE, message |-> "error.message"]

\* An exception reaches the outer catch block: its value is returned once
\* the finally block has run.
Catch ==
    /\ outcome' = Caught
    /\ bpc' = "closePage"

\* A call of one of the three probes, up to the first await of initBrowser.
CheckAccount(a) ==
    /\ bpc = "idle"
    /\ bcalls < MaxCalls
    /\ bcalls' = bcalls + 1
    /\ account' = a
    /\ browser' = "null"
    /\ context' = "null"
    /\ page' = "null"
    /\ outcome' = NoResult
    /\ settled' = "none"
    /\ bpc' = "launch"
    /\ inspection' = NotInspected
    /\ UNCHANGED <<session, pipelineVars, userVars, handshakeVars>>

\* initBrowser: chromium.launch settles.
LaunchSettled(ok) ==
    /\ bpc = "launch"
    /\ IF ok
       THEN /\ session' = session \cup {<<bcalls, "browser">>}
            /\ bpc' = "newContext"
            /\ UNCHANGED outcome
       ELSE /\ Catch
            /\ UNCHANGED session
    /\ UNCHANGED <<account, browser, context, page, settled, bcalls, inspection,
                   pipelineVars, userVars, handshakeVars>>

\* initBrowser: browser.newContext settles.
NewContextSettled(ok) ==
    /\ bpc = "newContext"
    /\ IF ok
       THEN /\ session' = session \cup {<<bcalls, "context">>}
            /\ bpc' = "newPage"
            /\ UNCHANGED outcome
       ELSE /\ Catch
            /\ UNCHANGED session
    /\ UNCHANGED <<account, browser, context, page, settled, bcalls, inspection,
                   pipelineVars, userVars, handshakeVars>>

\* initBrowser: context.newPage settles.
NewPageSettled(ok) ==
    /\ bpc = "newPage"
    /\ IF ok
       THEN /\ session' = session \cup {<<bcalls, "page">>}
            /\ bpc' = "addInitScript"
            /\ UNCHANGED outcome
       ELSE /\ Catch
            /\ UNCHANGED session
    /\ UNCHANGED <<account, browser, context, page, settled, bcalls, inspection,
                   pipelineVars, userVars, handshakeVars>>

\* initBrowser: page.addInitScript settles; initBrowser returns and the
\* probe's browser, context and page are assigned.
AddInitScriptSettled(ok) ==
    /\ bpc = "addInitScript"
    /\ IF ok
       THEN /\ browser' = "set"
            /\ context' = "set"
            /\ page' = "set"
            /\ bpc' = "drive"
            /\ UNCHANGED outcome
       ELSE /\ Catch
            /\ UNCHANGED <<browser, context, page>>
    /\ UNCHANGED <<account, session, settled, bcalls, inspection,
                   pipelineVars, userVars, handshakeVars>>

\* The probe drives the page: goto, waitForSelector, typeText, the click or
\* key press and the delays between them.  A failure of any of these awaits
\* is caught by the outer catch block.
DriveSettled(ok) ==
    /\ bpc = "drive"
    /\ IF ok
       THEN /\ bpc' = "inspect"
            /\ UNCHANGED outcome
       ELSE Catch
    /\ UNCHANGED <<account, browser, context, page, session, settled, bcalls,
                   inspection,
                   pipelineVars, userVars, handshakeVars>>

\* The probe inspects the page.  A failure is caught by the outer catch
\* block in checkGoogleAccount and by the inner one in the other two.
InspectSettled(visible, ok) ==
    /\ bpc = "inspect"
    /\ visible \subseteq Signals[account]
    /\ outcome' = IF ok THEN inspectPage(account, visible)
                  ELSE IF account = "Google" THEN Caught
                  ELSE [exists |-> FALSE, message |-> "Error checking account"]
    /\ inspection' = [state |-> IF ok THEN "ok" ELSE "failed", visible |-> visible]
    /\ bpc' = "closePage"
    /\ UNCHANGED <<account, browser, context, page, session, settled, bcalls,
                   pipelineVars, userVars, handshakeVars>>

\* finally: if (page) await page.close().  A rejection leaves the finally
\* block and rejects the call.
ClosePage(ok) ==
    /\ bpc = "closePage"
    /\ IF page = "null"
       THEN /\ ok
            /\ bpc' = "closeContext"
            /\ UNCHANGED <<session, settled>>
       ELSE IF ok
       THEN /\ session' = session \ {<<bcalls, "page">>}
            /\ bpc' = "closeContext"
            /\ UNCHANGED settled
       ELSE /\ settled' = "raised"
            /\ bpc' = "done"
            /\ UNCHANGED session
    /\ UNCHANGED <<account, browser, context, page, outcome, bcalls, inspection,
                   pipelineVars, userVars, handshakeVars>>

\* finally: if (context) await context.close(), which closes its pages too.
CloseContext(ok) ==
    /\ bpc = "closeContext"
    /\ IF context = "null"
       THEN /\ ok
            /\ bpc' = "closeBrowser"
            /\ UNCHANGED <<session, settled>>
       ELSE IF ok
       THEN /\ session' = session \ {<<bcalls, "page">>, <<bcalls, "context">>}
            /\ bpc' = "closeBrowser"
            /\ UNCHANGED settled
       ELSE /\ settled' = "raised"
            /\ bpc' = "done"
            /\ UNCHANGED session
    /\ UNCHANGED <<account, browser, context, page, outcome, bcalls, inspection,
                   pipelineVars, userVars, handshakeVars>>

\* finally: if (browser) await browser.close(), which closes its contexts
\* and pages too; then the value of the try or catch block is returned.
CloseBrowser(ok) ==
    /\ bpc = "closeBrowser"
    /\ IF browser = "null"
       THEN /\ ok
            /\ settled' = "returned"
            /\ UNCHANGED session
       ELSE IF ok
       THEN /\ session' = {r \in session : r[1] # bcalls}
            /\ settled' = "returned"
       ELSE /\ settled' = "raised"
            /\ UNCHANGED session
    /\ bpc' = "done"
    /\ UNCHANGED <<account, browser, context, page, outcome, bcalls, inspection,
                   pipelineVars, userVars, handshakeVars>>

\* The caller has the settled promise of the probe.
CheckAccountReturn ==
    /\ bpc = "done"
    /\ bpc' = "idle"
    /\ UNCHANGED <<account, browser, context, page, session, outcome, settled, bcalls,
                   inspection,
                   pipelineVars, userVars, handshakeVars>>

NextBrowser ==
    \/ \E a \in DOMAIN Signals : CheckAccount(a)
    \/ \E ok \in BOOLEAN : LaunchSettled(ok)
    \/ \E ok \in BOOLEAN : NewContextSettled(ok)
    \/ \E ok \in BOOLEAN : NewPageSettled(ok)
    \/ \E ok \in BOOLEAN : AddInitScriptSettled(ok)
    \/ \E ok \in BOOLEAN : DriveSettled(ok)
    \/ \E ok \in BOOLEAN :
          \E visible \in SUBSET UNION {Signals[a] : a \in DOMAIN Signals} :
              InspectSettled(visible, ok)
    \/ \E ok \in BOOLEAN : ClosePage(ok)
    \/ \E ok \in BOOLEAN : CloseContext(ok)
    \/ \E ok \in BOOLEAN : CloseBrowser(ok)
    \/ CheckAccountReturn

BrowserSpec == Init /\ [][NextBrowser]_vars

(***************************************************************************)
(* createUser.  Calls of different requests may overlap at their awaits.   *)
(***************************************************************************)
\* The emails createUser is called with.
UserEmails == {"ann@corp.io", "bob@corp.io"}

\* The document usersModel.create stores for an email, under the _id it is
\* given (defaults omitted).
UserDoc(email, id) == [email |-> email, id |-> id]

\* The users of an email in the collection.
UsersOf(store, email) == {d \in store : d.email = email}

\* The error of a write the unique index has rejected.
DuplicateKey == "E11000 duplicate key error"

\* The email field without its unique index: no write is rejected.
UniqueEmailOff(store, email) == FALSE

\* unique: true on Users.email: the index rejects the write of a second user
\* of an email.
UniqueEmail(store, email) == UsersOf(store, email) # {}

\* POST create-uuser: createUser up to await usersModel.findOne.
CreateUser(u, email) ==
    /\ upc[u] = "idle"
    /\ ucalls < MaxCalls
    /\ ucalls' = ucalls + 1
    /\ upc' = [upc EXCEPT ![u] = "findOne"]
    /\ uemail' = [uemail EXCEPT ![u] = email]
    /\ uknown' = [uknown EXCEPT ![u] = UsersOf(usersModel, email) # {}]
    /\ ures' = [ures EXCEPT ![u] = NoResult]
    /\ uuser' = [uuser EXCEPT ![u] = NoResult]
    /\ uerr' = [uerr EXCEPT ![u] = "none"]
    /\ UNCHANGED <<usersModel, pipelineVars, browserVars, handshakeVars>>

\* usersModel.findOne settles: with a uuser found the if block is skipped and
\* createUser returns undefined; otherwise usersModel.create is awaited.
FindOneSettled(u) ==
    /\ upc[u] = "findOne"
    /\ upc' = [upc EXCEPT ![u] = IF UsersOf(usersModel, uemail[u]) # {}
                                 THEN "done" ELSE "create"]
    /\ UNCHANGED <<usersModel, uemail, uknown, ures, uuser, uerr, ucalls, pipelineVars,
                   browserVars, handshakeVars>>

\* usersModel.create settles: the unique index on email rejects a second
\* user of an email; the catch block logs the error and createUser returns
\* undefined.  Otherwise the document is stored under a new _id and
\* user.save() is awaited.
UserCreateSettled(u) ==
    /\ upc[u] = "create"
    /\ IF UniqueEmail(usersModel, uemail[u])
       THEN /\ upc' = [upc EXCEPT ![u] = "done"]
            /\ uerr' = [uerr EXCEPT ![u] = DuplicateKey]
            /\ UNCHANGED <<usersModel, uuser>>
       ELSE /\ usersModel' = usersModel
                  \cup {UserDoc(uemail[u], Cardinality(usersModel) + 1)}
            /\ uuser' = [uuser EXCEPT ![u] = UserDoc(uemail[u], Cardinality(usersModel) + 1)]
            /\ upc' = [upc EXCEPT ![u] = "save"]
            /\ UNCHANGED uerr
    /\ UNCHANGED <<uemail, uknown, ures, ucalls, pipelineVars, browserVars, handshakeVars>>

\* user.save() settles (the document was not modified); the uuser is returned.
UserSaveSettled(u) ==
    /\ upc[u] = "save"
    /\ upc' = [upc EXCEPT ![u] = "done"]
    /\ ures' = [ures EXCEPT ![u] = uuser[u]]
    /\ UNCHANGED <<usersModel, uemail, uknown, uuser, uerr, ucalls, pipelineVars,
                   browserVars, handshakeVars>>

\* The controller returns the value of createUser to the client.
CreateUserReturn(u) ==
    /\ upc[u] = "done"
    /\ upc' = [upc EXCEPT ![u] = "idle"]
    /\ UNCHANGED <<usersModel, uemail, uknown, ures, uuser, uerr, ucalls, pipelineVars,
                   browserVars, handshakeVars>>

NextUsers ==
    \/ \E u \in Callers, email \in UserEmails : CreateUser(u, email)
    \/ \E u \in Callers : FindOneSettled(u)
    \/ \E u \in Callers : UserCreateSettled(u)
    \/ \E u \in Callers : UserSaveSettled(u)
    \/ \E u \in Callers : CreateUserReturn(u)

UsersSpec == Init /\ [][NextUsers]_vars

(***************************************************************************)
(* isRoleEmail on its own: getInfoEmail for local parts put together from  *)
(* words and separators, at a domain without DNS records.                  *)
(***************************************************************************)
\* The pieces of a local part: a keyword, a name, a keyword in capitals and
\* the three separators.
LocalPieces ==
    { <<"s", "u", "p", "p", "o", "r", "t">>, <<"j", "o", "h", "n">>,
      <<"S", "A", "L", "E", "S">>, <<".">>, <<"-">>, <<"_">> }

\* The most pieces of a local part.
MaxPieces == 3

\* The concatenation of a sequence of strings.
RECURSIVE Concat(_)
Concat(ss) == IF ss = <<>> THEN <<>> ELSE Head(ss) \o Concat(Tail(ss))

\* The addresses isRoleEmail is applied to.
RoleTargets ==
    { Concat(ps) \o <<"@", "c", "o", "r", "p", ".", "i", "o">> :
        ps \in UNION {[1..k -> LocalPieces] : k \in 0..MaxPieces} }

InitRole ==
    /\ emailsModel = {}
    /\ calls = 1
    /\ api = "one"
    /\ emails = <<>>
    /\ idx = 0
    /\ dataa = <<>>
    /\ loop = "none"
    /\ slept = 0
    /\ inFlight = {}
    /\ pc = "info"
    /\ check \in RoleTargets
    /\ lookups = <<Rejected, Rejected, Rejected>>
    /\ dns = verifyEmailDns(check, Rejected, Rejected, Rejected)
    /\ info = NoResult
    /\ pending = NoResult
    /\ createFailed = FALSE
    /\ res = NoResult
    /\ socket = "none"
    /\ socketHost = Undefined
    /\ buffer = <<>>
    /\ step = 0
    /\ timeoutId = "none"
    /\ smtp = NoResult
    /\ written = <<>>
    /\ replies = <<>>
    /\ resolvedBy = "none"
    /\ chunks = 0
    /\ socketId = 0
    /\ connections = <<>>
    /\ probes = 0
    /\ bpc = "idle"
    /\ account = "none"
    /\ browser = "null"
    /\ context = "null"
    /\ page = "null"
    /\ session = {}
    /\ outcome = NoResult
    /\ settled = "none"
    /\ bcalls = 0
    /\ inspection = NotInspected
    /\ InitUsers
    /\ InitHandshake

NextRole == InfoResolved

RoleSpec == InitRole /\ [][NextRole]_vars

(***************************************************************************)
(* verifyEmailWithDnsResult and smtpHandshake.                             *)
(***************************************************************************)
\* !x for a string that may be undefined.
Falsy(x) == x = Undefined \/ x = <<>>

\* @corp.io: an address without a local part.
NoLocalTarget == <<"@", "c", "o", "r", "p", ".", "i", "o">>

\* The addresses verifyEmailWithDnsResult is called with.
HandshakeTargets == {PlainTarget, MalformedTarget, NoLocalTarget}

\* The data events a mail server may cause.
HandshakeData ==
    { <<"2", "2", "0">>, <<"2", "5", "0">>, <<"5", "5", "0">>, <<"4", "5", "1">> }

\* The record goes behind the records of the sorted list whose priority is
\* not higher.
InsertByPriority(s, r) ==
    LET k == Cardinality({i \in 1..Len(s) : s[i].priority <= r.priority})
    IN  SubSeq(s, 1, k) \o <<r>> \o SubSeq(s, k + 1, Len(s))

\* SortByPriority leaving the records in the order they came in.
SortByPriorityKeep(s) == s

\* Array.prototype.sort with (a, b) => a.priority - b.priority: stable.
RECURSIVE SortByPriority(_)
SortByPriority(s) ==
    IF s = <<>> THEN <<>>
    ELSE InsertByPriority(SortByPriority(SubSeq(s, 1, Len(s) - 1)), s[Len(s)])

\* smtpHandshake up to the promise: net.createConnection(25, smtpServer).
StartHandshake(smtpServer) ==
    /\ contacted' = Append(contacted, smtpServer)
    /\ hsocket' = "open"
    /\ handshakeState' = 0
    /\ hwritten' = <<>>
    /\ hpromise' = "pending"

\* verifyEmailWithDnsResult returns without calling smtpHandshake (again).
HandshakeDone(value) ==
    /\ hpc' = "returned"
    /\ hres' = [value |-> value]

\* A call of verifyEmailWithDnsResult, up to its first await.
VerifyEmailWithDnsResult(email, dnsResult) ==
    /\ hpc = "idle"
    /\ hcalls < MaxCalls
    /\ hcalls' = hcalls + 1
    /\ hemail' = email
    /\ LET user   == At(Split(email, "@"), 0)
           domain == At(Split(email, "@"), 1)
       IN  IF \/ Falsy(user) \/ Falsy(domain)
              \/ ~dnsResult.hasMxRecord \/ Len(dnsResult.mxRecords) = 0
           THEN /\ HandshakeDone(FALSE)
                /\ sortedMxRecords' = dnsResult.mxRecords
                /\ hi' = 0
                /\ contacted' = <<>>
                /\ hsocket' = "none"
                /\ handshakeState' = 0
                /\ hwritten' = <<>>
                /\ hpromise' = "none"
           ELSE /\ sortedMxRecords' = SortByPriority(dnsResult.mxRecords)
                /\ hi' = 1
                /\ hpc' = "handshake"
                /\ hres' = NoResult
                /\ contacted' = <<sortedMxRecords'[1].exchange>>
                /\ hsocket' = "open"
                /\ handshakeState' = 0
                /\ hwritten' = <<>>
                /\ hpromise' = "pending"
    /\ UNCHANGED <<pipelineVars, browserVars, userVars>>

\* socket.on('data') of smtpHandshake: each event is tested on its own for
\* the reply code the state waits for; an event without it changes nothing.
HandshakeSocketData(data) ==
    /\ hpc = "handshake"
    /\ hsocket \in {"open", "ended"}
    /\ IF handshakeState = 0 /\ Includes(data, <<"2", "2", "0">>)
       THEN /\ hwritten' = Append(hwritten, "EHLO")
            /\ handshakeState' = 1
            /\ UNCHANGED <<hsocket, hpromise>>
       ELSE IF handshakeState = 1 /\ Includes(data, <<"2", "5", "0">>)
       THEN /\ hwritten' = Append(hwritten, "MAIL FROM")
            /\ handshakeState' = 2
            /\ UNCHANGED <<hsocket, hpromise>>
       ELSE IF handshakeState = 2 /\ Includes(data, <<"2", "5", "0">>)
       THEN /\ hwritten' = Append(hwritten, "RCPT TO")
            /\ handshakeState' = 3
            /\ UNCHANGED <<hsocket, hpromise>>
       ELSE IF handshakeState = 3 /\ Includes(data, <<"2", "5", "0">>)
       THEN /\ hsocket' = "ended"
            /\ hpromise' = IF hpromise = "pending" THEN "true" ELSE hpromise
            /\ UNCHANGED <<hwritten, handshakeState>>
       ELSE IF handshakeState = 3 /\ Includes(data, <<"5", "5", "0">>)
       THEN /\ hsocket' = "ended"
            /\ hpromise' = IF hpromise = "pending" THEN "false" ELSE hpromise
            /\ UNCHANGED <<hwritten, handshakeState>>
       ELSE UNCHANGED <<hwritten, handshakeState, hsocket, hpromise>>
    /\ UNCHANGED <<hpc, hemail, sortedMxRecords, hi, contacted, hres, hcalls,
                   pipelineVars, browserVars, userVars>>

\* socket.on('error') of smtpHandshake.
HandshakeSocketError ==
    /\ hpc = "handshake"
    /\ hsocket \in {"open", "ended"}
    /\ hsocket' = "destroyed"
    /\ hpromise' = IF hpromise = "pending" THEN "rejected" ELSE hpromise
    /\ UNCHANGED <<hpc, hemail, sortedMxRecords, hi, contacted, hres, handshakeState,
                   hwritten, hcalls, pipelineVars, browserVars, userVars>>

\* The server ends the connection without an error: smtpHandshake has no
\* handler for 'end' or 'close'.  (Its handler for 'timeout' never runs: no
\* timeout is set on the socket.)
HandshakePeerClose ==
    /\ hpc = "handshake"
    /\ hsocket = "open"
    /\ hsocket' = "closed"
    /\ UNCHANGED <<hpc, hemail, sortedMxRecords, hi, contacted, hres, handshakeState,
                   hwritten, hpromise, hcalls, pipelineVars, browserVars, userVars>>

\* verifyEmailWithDnsResult resumes with the settled promise of
\* smtpHandshake: true is returned at once; otherwise the loop goes on to
\* the next record, or ends and false is returned.
HandshakeAwaited ==
    /\ hpc = "handshake"
    /\ hpromise \in {"true", "false", "rejected"}
    /\ IF hpromise = "true"
       THEN /\ HandshakeDone(TRUE)
            /\ UNCHANGED <<hi, contacted, hsocket, handshakeState, hwritten, hpromise>>
       ELSE IF hi < Len(sortedMxRecords)
       THEN /\ hi' = hi + 1
            /\ StartHandshake(sortedMxRecords[hi + 1].exchange)
            /\ UNCHANGED <<hpc, hres>>
       ELSE /\ HandshakeDone(FALSE)
            /\ UNCHANGED <<hi, contacted, hsocket, handshakeState, hwritten, hpromise>>
    /\ UNCHANGED <<hemail, sortedMxRecords, hcalls, pipelineVars, browserVars, userVars>>

\* The caller has the value of verifyEmailWithDnsResult.
HandshakeReturn ==
    /\ hpc = "returned"
    /\ hpc' = "idle"
    /\ UNCHANGED <<hemail, sortedMxRecords, hi, contacted, hres, hsocket, handshakeState,
                   hwritten, hpromise, hcalls, pipelineVars, browserVars, userVars>>

NextHandshake ==
    \/ \E email \in HandshakeTargets, mx \in MxAnswers :
          VerifyEmailWithDnsResult(email, verifyEmailDns(email, mx, Rejected, Rejected))
    \/ \E data \in HandshakeData : HandshakeSocketData(data)
    \/ HandshakeSocketError
    \/ HandshakePeerClose
    \/ HandshakeAwaited
    \/ HandshakeReturn

HandshakeSpec == Init /\ [][NextHandshake]_vars

\* The event loop resumes an async function whose awaited promise has
\* settled; what the server does is left to the server.
HandshakeLiveSpec ==
    Init /\ [][NextHandshake]_vars /\ WF_vars(HandshakeAwaited) /\ WF_vars(HandshakeReturn)

(***************************************************************************)
(* verifyEmailDns and getInfoEmail on their own: one verifyOneEmail call   *)
(* for any target, with the resolver free to settle each lookup any way.   *)
(***************************************************************************)
InitDns ==
    /\ emailsModel = {}
    /\ calls = 1
    /\ api = "one"
    /\ emails = <<>>
    /\ idx = 0
    /\ dataa = <<>>
    /\ loop = "none"
    /\ slept = 0
    /\ inFlight = {}
    /\ pc = "dns"
    /\ check \in Targets
    /\ dns = NoResult
    /\ info = NoResult
    /\ pending = NoResult
    /\ createFailed = FALSE
    /\ res = NoResult
    /\ socket = "none"
    /\ socketHost = Undefined
    /\ buffer = <<>>
    /\ step = 0
    /\ timeoutId = "none"
    /\ smtp = NoResult
    /\ written = <<>>
    /\ replies = <<>>
    /\ resolvedBy = "none"
    /\ chunks = 0
    /\ socketId = 0
    /\ connections = <<>>
    /\ probes = 0
    /\ lookups = <<>>
    /\ bpc = "idle"
    /\ account = "none"
    /\ browser = "null"
    /\ context = "null"
    /\ page = "null"
    /\ session = {}
    /\ outcome = NoResult
    /\ settled = "none"
    /\ bcalls = 0
    /\ inspection = NotInspected
    /\ InitUsers
    /\ InitHandshake

NextDns ==
    \/ \E m \in MxAnswers, t \in TxtAnswers, d \in DmarcAnswers : DnsResolved(m, t, d)
    \/ InfoResolved

DnsSpec == InitDns /\ [][NextDns]_vars

(***************************************************************************)
(* Properties.                                                             *)
(***************************************************************************)
\* The probe ran the whole exchange: a reply beginning "2" in the banner,
\* EHLO, STARTTLS and MAIL FROM steps and a reply beginning "250" to RCPT TO.
GoodExchange ==
    /\ Len(replies) = 5
    /\ \A i \in 1..4 : StartsWith(replies[i], <<"2">>)
    /\ StartsWith(replies[5], <<"2", "5", "0">>)

\* The (state, score) pairs a document may carry, by its disposable flag.
ValidPair(d) ==
    IF d.disposable
    THEN d.state = "Risky" /\ d.score = 5
    ELSE \/ d.state = "Deliverable" /\ d.score = 99
         \/ d.state = "Undeliverable" /\ d.score = 0

\* C1: a record returned by verifyOneEmail for a target whose domain is in
\* the disposable list has state Risky and score 5, whatever the DNS lookups
\* answered (MX present or absent, lookups failing); no SMTP probe is run for
\* it, so no answer of a mail server can change the record.
C1_DisposableIsRisky ==
    (pc = "returned" /\ res # NoResult /\ isBlacklisted(check))
        => (res.state = "Risky" /\ res.score = 5 /\ socket = "none")

\* A record was returned for a disposable target whose domain has MX records.
C1_Witness ==
    /\ pc = "returned"
    /\ res # NoResult
    /\ isBlacklisted(check)
    /\ dns.hasMxRecord

\* C2: every document handed to the store, stored, or returned carries
\* (Risky, 5) if disposable and otherwise (Deliverable, 99) or
\* (Undeliverable, 0); for a target that is not disposable the pair is
\* (Deliverable, 99) exactly when the probe reported exists = true.
C2_StateScorePairs ==
    /\ \A d \in emailsModel : ValidPair(d)
    /\ res # NoResult => ValidPair(res)
    /\ pending # NoResult =>
          /\ ValidPair(pending)
          /\ pending.disposable = isBlacklisted(pending.email)
          /\ ~pending.disposable =>
                (pending.state = "Deliverable" <=> smtp.exists)

\* The store holds a Risky and a Deliverable document.
C2_Witness ==
    /\ \E d \in emailsModel : d.state = "Risky"
    /\ \E d \in emailsModel : d.state = "Deliverable"

\* C3: verifyOneEmail returns the computed record to the caller also when
\* emailsModel.create rejects the write.
C3_RecordReturnedDespiteFailure ==
    (pc = "returned" /\ createFailed) => (res # NoResult /\ res = pending)

\* C4: verifyManyEmail, given N addresses (repeated or already stored ones
\* included), returns N results of which the i-th is a record whose email is
\* the i-th address.
C4_ManyResultsMatchInput ==
    (loop = "returned" /\ \A i \in 1..Len(emails) : ~checkFreeOrPaidThrows(emails[i]))
        => /\ Len(dataa) = Len(emails)
           /\ \A i \in 1..Len(emails) :
                 dataa[i] # NoResult /\ dataa[i].email = emails[i]

\* C5: within one verifyManyEmail call at most one target is being verified;
\* while target idx is being verified it is the idx-th address of the input,
\* the verifications of the idx-1 targets before it have returned and their
\* results are pushed in input order, and the fixed delay of 2000 ms has
\* elapsed after each of them; while the loop sleeps nothing is verified.
C5_OneAtATime ==
    api = "many" =>
        /\ Cardinality(inFlight) <= 1
        /\ loop = "verify" =>
              /\ inFlight = {idx}
              /\ check = emails[idx]
              /\ Len(dataa) = idx - 1
              /\ slept = 2000 * (idx - 1)
        /\ loop = "sleep" =>
              /\ inFlight = {}
              /\ pc = "idle"
              /\ socket # "open"
              /\ Len(dataa) = idx
              /\ slept = 2000 * (idx - 1)

\* The second target of a list is being probed over an open connection.
C5_Witness ==
    /\ api = "many"
    /\ loop = "verify"
    /\ idx = 2
    /\ pc = "probe"
    /\ socket = "open"

\* C6: a verifyEmail call always resolves: once verifyOneEmail awaits the
\* probe, the promise eventually holds a result, whatever the server sends
\* or omits, and also when the socket fails or is closed by the peer.
C6_ProbeResolves == (pc = "probe") ~> (smtp # NoResult)

\* The server sent a piece of a line without terminator, and nothing else,
\* and the probe resolved.
C6_Witness ==
    /\ pc = "probe"
    /\ buffer # <<>>
    /\ replies = <<>>
    /\ smtp # NoResult

\* C7: when the timer expires before a terminal decision, the socket is
\* destroyed and the probe resolves with success = false, exists = false and
\* the message "Connection timeout".
C7_TimeoutResult ==
    resolvedBy = "timeout" =>
        /\ socket = "destroyed"
        /\ smtp = [success |-> FALSE, exists |-> FALSE,
                   message |-> "Connection timeout"]

\* The timer expired before the server sent anything.
C7_Witness ==
    /\ resolvedBy = "timeout"
    /\ chunks = 0
    /\ replies = <<>>

\* C8 as stated: on every exit path of a probe that opened a connection,
\* QUIT was written and the socket is destroyed once the probe has resolved.
C8_QuitOnEveryExit ==
    (smtp # NoResult /\ socketHost # Undefined)
        => (socket = "destroyed" /\ \E i \in 1..Len(written) : written[i] = <<"QUIT">>)

\* C8 as amended: once a probe that opened a connection has resolved, the
\* socket is destroyed; QUIT is the last command written on the exit paths
\* through closeConnection (a terminal reply, a rejected step, a socket
\* error), and no QUIT is written on the timeout path.
C8_TornDownOnEveryExit ==
    (smtp # NoResult /\ socketHost # Undefined) =>
        /\ socket = "destroyed"
        /\ resolvedBy \in {"reply", "error"} =>
              (written # <<>> /\ written[Len(written)] = <<"QUIT">>)
        /\ resolvedBy = "timeout" =>
              \A i \in 1..Len(written) : written[i] # <<"QUIT">>

\* The probe timed out in the middle of the exchange.
C8_Witness ==
    /\ resolvedBy = "timeout"
    /\ step = 2
    /\ socket = "destroyed"

\* C9: after replies beginning "2" to the banner, EHLO, STARTTLS and MAIL
\* FROM, a 250 reply to RCPT TO makes the probe resolve with exists = true
\* and a 550 reply makes it resolve with exists = false.
C9_ScriptedExchange ==
    (Len(replies) = 5 /\ \A i \in 1..4 : StartsWith(replies[i], <<"2">>)) =>
        /\ smtp # NoResult
        /\ StartsWith(replies[5], <<"2", "5", "0">>) => smtp.exists
        /\ StartsWith(replies[5], <<"5", "5", "0">>) => ~smtp.exists

\* The exchange 220, 250, 250, 250, 250 ran and the probe reported the
\* mailbox.
C9_Witness ==
    /\ replies = << <<"2", "2", "0">>, <<"2", "5", "0">>, <<"2", "5", "0">>,
                    <<"2", "5", "0">>, <<"2", "5", "0">> >>
    /\ smtp # NoResult
    /\ smtp.exists

\* C10: a record returned by verifyOneEmail is Deliverable only if the probe
\* ran the whole exchange with a 250 reply to RCPT TO; a record returned for
\* a target that is not disposable after anything else (timeout, socket
\* error, rejected step, blocked or unexpected RCPT reply, no MX record) is
\* Undeliverable with score 0.
C10_FailClosed ==
    (pc = "returned" /\ res # NoResult) =>
        /\ res.state = "Deliverable" => GoodExchange
        /\ (~res.disposable /\ ~GoodExchange) =>
              (res.state = "Undeliverable" /\ res.score = 0)

\* A record was returned after the server answered RCPT TO with a reply that
\* names a block.
C10_Witness ==
    /\ pc = "returned"
    /\ res # NoResult
    /\ Len(replies) = 5
    /\ Includes(replies[5], <<"b", "l", "o", "c", "k", "e", "d">>)
    /\ res.state = "Undeliverable"

\* The response names a block: it contains "blocked" or "Service unavailable".
NamesBlock(r) ==
    \/ Includes(r, <<"b", "l", "o", "c", "k", "e", "d">>)
    \/ Includes(r, <<"S", "e", "r", "v", "i", "c", "e", " ", "u", "n", "a", "v", "a",
                     "i", "l", "a", "b", "l", "e">>)

\* C11 as stated: the reply to RCPT TO ends the probe, and every reply whose
\* code is 550 is reported as the negative determination "Email does not
\* exist".
C11_Every550IsNegative ==
    (Len(replies) = 5 /\ StartsWith(replies[5], <<"5", "5", "0">>))
        => (smtp # NoResult /\ smtp.message = "Email does not exist")

\* C11 as amended: the reply to RCPT TO ends the probe in every case; a reply
\* beginning 250 gives exists = true; otherwise exists = false, reported as
\* blocked if the reply names a block (whatever its code, 550 included), as
\* "Email does not exist" if it begins 550 and names no block, and as
\* "Unexpected response" in every other case.
C11_RcptClassification ==
    Len(replies) = 5 =>
        /\ smtp # NoResult
        /\ resolvedBy = "reply"
        /\ socket = "destroyed"
        /\ LET r == replies[5]
           IN  /\ SubSeq(r, 1, 3) = <<"2", "5", "0">>
                     => (smtp.exists /\ smtp.message = "Email exists")
               /\ (SubSeq(r, 1, 3) # <<"2", "5", "0">> /\ NamesBlock(r))
                     => /\ ~smtp.exists
                        /\ smtp.message = "Verification failed: Server blocked our request"
               /\ (SubSeq(r, 1, 3) = <<"5", "5", "0">> /\ ~NamesBlock(r))
                     => (~smtp.exists /\ smtp.message = "Email does not exist")
               /\ (SubSeq(r, 1, 3) \notin {<<"2", "5", "0">>, <<"5", "5", "0">>}
                      /\ ~NamesBlock(r))
                     => (~smtp.exists /\ smtp.message = "Unexpected response")

\* RCPT TO was answered by a 550 reply that names a block, and the probe
\* reported a block.
C11_Witness ==
    /\ Len(replies) = 5
    /\ replies[5] = <<"5", "5", "0", " ", "b", "l", "o", "c", "k", "e", "d">>
    /\ smtp # NoResult
    /\ smtp.message = "Verification failed: Server blocked our request"

\* The commands of the exchange, in their order, for the address probed.
Exchange(email) == [s \in 1..4 |-> Command(s - 1, email)]

\* The commands written so far, without QUIT.
WrittenBeforeQuit == SelectSeq(written, LAMBDA c : c # <<"QUIT">>)

\* C12: the probe sends EHLO, STARTTLS, MAIL FROM and RCPT TO at most once
\* each and in that order, one per step made, each after a reply beginning
\* "2" in the step before; a reply that does not begin "2" in one of the
\* first four steps ends the probe with exists = false, and after a QUIT no
\* further command is written.
C12_StepOrder ==
    socketHost # Undefined =>
        /\ step \in 0..4
        /\ WrittenBeforeQuit = SubSeq(Exchange(check), 1, step)
        /\ \A i \in 1..Len(written) : written[i] = <<"QUIT">> => i = Len(written)
        /\ Len(replies) \in {step, step + 1}
        /\ \A i \in 1..step : StartsWith(replies[i], <<"2">>)
        /\ Len(replies) = step + 1 =>
              /\ smtp # NoResult
              /\ written[Len(written)] = <<"QUIT">>
              /\ step < 4 => (~StartsWith(replies[step + 1], <<"2">>) /\ ~smtp.exists)

\* The reply to STARTTLS did not begin "2": the probe ended there.
C12_Witness ==
    /\ step = 2
    /\ Len(replies) = 3
    /\ smtp # NoResult
    /\ ~smtp.exists

\* C13: a transport failure of the probe, a socket error or a timeout, gives
\* a result with completed (success) = false and a diagnostic message.
C13_TransportFailureNotCompleted ==
    (smtp # NoResult /\ resolvedBy \in {"error", "timeout"})
        => (~smtp.success /\ ~smtp.exists /\ smtp.message # "")

\* C14: the completed (success) flag of a probe result is true exactly when
\* the exchange ran to a reply beginning 250 or 550 to RCPT TO.
C14_CompletedIffDecision ==
    smtp # NoResult =>
        (smtp.success <=>
            /\ Len(replies) = 5
            /\ \/ StartsWith(replies[5], <<"2", "5", "0">>)
               \/ StartsWith(replies[5], <<"5", "5", "0">>))

\* C15: the host the probe connects to is one of the exchange hosts of the
\* DNS result of the target.
C15_ConnectsToResolvedMx ==
    socketHost # Undefined
        => \E i \in 1..Len(dns.mxRecords) : dns.mxRecords[i].exchange = socketHost

\* C16: every probe that has called tls.connect opened exactly one
\* connection, and every connection was opened, written to and destroyed by
\* one probe only.
C16_OneConnectionPerProbe ==
    /\ Len(connections) = probes
    /\ \A p \in 1..probes :
          Cardinality({c \in 1..Len(connections) : connections[c].openedBy = p}) = 1
    /\ \A c \in 1..Len(connections) :
          connections[c].users = {connections[c].openedBy}

\* A second probe has opened its connection and ended its exchange on it.
C16_Witness ==
    /\ probes = 2
    /\ socketId = 2
    /\ socket = "destroyed"
    /\ written # <<>>

\* The lookups of verifyEmailDns that failed: resolveMx and resolveTxt throw
\* for an address without a domain, and any lookup may be rejected.
FailedLookups ==
    LET noDomain == ~Includes(check, <<"@">>)
    IN  [ MX    |-> noDomain \/ ~lookups[1].ok,
          SPF   |-> noDomain \/ ~lookups[2].ok,
          DMARC |-> ~lookups[3].ok ]

\* The entry of errors for a failed lookup (without the resolver's message).
LookupError ==
    [ MX    |-> "MX lookup failed",
      SPF   |-> "SPF lookup failed",
      DMARC |-> "DMARC lookup failed" ]

\* Some string of a TXT answer begins with the tag.
HasTag(answer, tag) ==
    \E i \in 1..Len(answer.value) :
        \E j \in 1..Len(answer.value[i]) : StartsWith(answer.value[i][j], tag)

\* C17: whatever subset of the three lookups fails, verifyEmailDns returns a
\* result in which the flag of each failed lookup is false, the flags and
\* records of the lookups that succeeded are those of their answers, and
\* errors holds exactly one entry for each failed lookup, in the order MX,
\* SPF, DMARC.
C17_IndependentLookups ==
    lookups # <<>> =>
        /\ dns # NoResult
        /\ LET failed == SelectSeq(<<"MX", "SPF", "DMARC">>, LAMBDA l : FailedLookups[l])
           IN  dns.errors = [i \in 1..Len(failed) |-> LookupError[failed[i]]]
        /\ IF FailedLookups.MX
           THEN ~dns.hasMxRecord /\ dns.mxRecords = <<>>
           ELSE /\ dns.mxRecords = lookups[1].value
                /\ dns.hasMxRecord <=> lookups[1].value # <<>>
        /\ IF FailedLookups.SPF
           THEN ~dns.hasSPF
           ELSE dns.hasSPF <=> HasTag(lookups[2], <<"v", "=", "s", "p", "f", "1">>)
        /\ IF FailedLookups.DMARC
           THEN ~dns.hasDMARC
           ELSE dns.hasDMARC <=> HasTag(lookups[3], <<"v", "=", "D", "M", "A", "R", "C", "1">>)

\* The SPF lookup alone failed: the MX records and the DMARC policy are
\* reported, with one error.
C17_Witness ==
    /\ lookups # <<>>
    /\ lookups[1].ok /\ ~lookups[2].ok /\ lookups[3].ok
    /\ dns.errors = <<"SPF lookup failed">>
    /\ dns.hasMxRecord
    /\ dns.hasDMARC

\* C18: the mxRecords of the result of verifyEmailDns are in ascending order
\* of priority, in whatever order the resolver delivered them.
C18_MxSortedByPriority ==
    lookups # <<>> =>
        \A i, j \in 1..Len(dns.mxRecords) :
            i < j => dns.mxRecords[i].priority <= dns.mxRecords[j].priority

\* The providers extractMxRecords knows, in the order it tests them.
ProviderOrder == <<"Google", "Microsoft", "Yahoo", "CloudflareEmailRouting">>

\* The substrings of an exchange host name that tell a provider.
ProviderMarks ==
    [ Google    |-> {<<"g", "o", "o", "g", "l", "e", ".", "c", "o", "m">>},
      Microsoft |-> {<<"o", "u", "t", "l", "o", "o", "k", ".", "c", "o", "m">>,
                     <<"p", "r", "o", "t", "e", "c", "t", "i", "o", "n", ".", "o", "u", "t", "l", "o", "o", "k", ".", "c", "o", "m">>},
      Yahoo     |-> {<<"y", "a", "h", "o", "o", "d", "n", "s", ".", "n", "e", "t">>},
      CloudflareEmailRouting |-> {<<"c", "l", "o", "u", "d", "f", "l", "a", "r", "e", ".", "n", "e", "t">>} ]

\* The positions in ProviderOrder of the providers some record of the list tells.
ProvidersTold(records) ==
    {k \in 1..Len(ProviderOrder) :
        \E r \in {records[i] : i \in 1..Len(records)} :
            \E mark \in ProviderMarks[ProviderOrder[k]] : Includes(r.exchange, mark)}

\* C19: the provider reported for a list of MX records is the first in the
\* order Google, Microsoft, Yahoo, Cloudflare that some host name of the list
\* tells, wherever in the list that host name stands, and "Unknown" when no
\* host name tells any provider (the empty list included).
C19_FirstProviderWins ==
    info # NoResult =>
        LET told == ProvidersTold(dns.mxRecords)
        IN  info.provider =
               IF told = {} THEN "Unknown"
               ELSE ProviderOrder[CHOOSE k \in told : \A l \in told : k <= l]

\* A list with an outlook.com host ahead of a google.com host gave Google.
C19_Witness ==
    /\ info # NoResult
    /\ dns.mxRecords = <<MxOutlook, MxGoogle>>
    /\ info.provider = "Google"

\* C20: when a browser probe has ended, by whatever path, the browser, the
\* context and the page of its session are all released.
C20_SessionReleased ==
    bpc \in {"done", "idle"} => session = {}

\* C21: a browser probe never rejects: whatever fails, the call returns a
\* result, and after a failure that result is exists = false with a message.
C21_NeverRaises ==
    bpc \in {"done", "idle"} /\ bcalls > 0 =>
        /\ settled = "returned"
        /\ inspection.state # "ok" => (~outcome.exists /\ outcome.message # "")

\* C22: a browser probe returns exists = true exactly when the login flow
\* ran to the inspection of the page without a failure and none of the
\* provider's negative texts was visible.
C22_ExistsIffNoNegativeSignal ==
    settled = "returned" =>
        (outcome.exists <=>
            /\ inspection.state = "ok"
            /\ inspection.visible \cap Signals[account] = {})

\* checkMicrosoftAccount saw only its second not-found text and returned
\* exists = false.
C22_Witness ==
    /\ settled = "returned"
    /\ account = "Microsoft"
    /\ inspection = [state |-> "ok", visible |-> {"This username may be"}]
    /\ ~outcome.exists

\* C23: the users collection holds at most one user of an email, and a
\* createUser call for an email that was registered when the call began
\* returns the user of that email.
C23_RegisteredUserReturned ==
    /\ \A a, b \in usersModel : a.email = b.email => a = b
    /\ \A u \in Callers :
          (upc[u] = "done" /\ uknown[u]) => ures[u] \in UsersOf(usersModel, uemail[u])

\* C24: within a verifyOneEmail call the steps follow one another: while a
\* DNS resolution is awaited no connection is open, no timer armed and no
\* document handed to create; a connection exists only once both DNS
\* resolutions have settled; and while create is awaited the probe has
\* resolved (or was skipped), its socket is gone and its timer is not armed.
C24_StepsInSequence ==
    /\ pc \in {"dns", "info"} =>
          /\ socket = "none"
          /\ timeoutId = "none"
          /\ smtp = NoResult
          /\ pending = NoResult
    /\ socket # "none" => (lookups # <<>> /\ dns # NoResult /\ info # NoResult)
    /\ pc = "create" =>
          /\ pending # NoResult
          /\ info.disposable \/ smtp # NoResult
          /\ socket \in {"none", "destroyed"}
          /\ timeoutId # "armed"

\* create is awaited after a probe that went to the network and resolved.
C24_Witness ==
    /\ pc = "create"
    /\ socket = "destroyed"
    /\ smtp # NoResult
    /\ written # <<>>

\* C25: every verifyOneEmail call that has handed a document to create has
\* written it to the collection as a new record.
C25_EachCallWritesARecord ==
    (pc = "returned" /\ pending # NoResult) => (~createFailed /\ pending \in emailsModel)

\* The local part of an address.
LocalPart(email) == At(Split(email, "@"), 0)

\* The local part holds none of the separators '.', '-', '_'.
SeparatorFree(s) == \A i \in 1..Len(s) : s[i] \notin {".", "-", "_"}

\* C26: for a local part without a separator, isRoleEmail is true exactly
\* when the lower-cased local part is one of the keywords.
C26_KeywordAtBoundaryOnly ==
    (info # NoResult /\ SeparatorFree(LocalPart(check))) =>
        (info.role = "Yes" <=> ToLowerCase(LocalPart(check)) \in roleKeywords)

\* johnsupport@corp.io was found not to be a role address.
C26_Witness ==
    /\ info # NoResult
    /\ check = <<"j", "o", "h", "n", "s", "u", "p", "p", "o", "r", "t", "@", "c", "o",
                 "r", "p", ".", "i", "o">>
    /\ info.role = "No"

\* C27: a connection is opened only for a target that is not disposable and
\* has an MX record; a disposable target gets the Risky document without a
\* probe; a target without MX record gets 'No MX records found for domain'
\* with exists = false, and no connection and no timer.
C27_NoConnectionWithoutMx ==
    /\ socketHost # Undefined =>
          (~info.disposable /\ dns.hasMxRecord /\ Len(dns.mxRecords) > 0)
    /\ (info # NoResult /\ info.disposable) =>
          /\ socket = "none" /\ timeoutId = "none" /\ smtp = NoResult
          /\ pending.state = "Risky" /\ pending.score = 5
    /\ (info # NoResult /\ ~info.disposable /\ dns.mxRecords = <<>>) =>
          /\ smtp = [success |-> FALSE, exists |-> FALSE,
                     message |-> "No MX records found for domain"]
          /\ socket = "none" /\ timeoutId = "none" /\ written = <<>>

\* verifyEmail returned at its guard for a target without MX record.
C27_Witness ==
    /\ pc = "probe"
    /\ resolvedBy = "nomx"
    /\ smtp # NoResult
    /\ socket = "none"

\* C28: a verifyEmailWithDnsResult call that is awaiting smtpHandshake
\* eventually returns, whatever the server does.
C28_HandshakeSettles == (hpc = "handshake") ~> (hpc = "returned")

\* C29: verifyEmailWithDnsResult calls smtpHandshake for the MX hosts one
\* after another in ascending order of priority; it returns true at the
\* first host whose handshake resolved true, and only then leaves later
\* hosts untried; it returns false only when the handshake of the last host
\* resolved false or rejected, or, with no host contacted, when the address
\* has no local part or domain or the DNS result has no MX record.
C29_HostsInPriorityOrder ==
    hemail # Undefined =>
        /\ contacted = [i \in 1..hi |-> sortedMxRecords[i].exchange]
        /\ hi > 0 =>
              \A i, j \in 1..Len(sortedMxRecords) :
                  i < j => sortedMxRecords[i].priority <= sortedMxRecords[j].priority
        /\ (\/ Falsy(At(Split(hemail, "@"), 0))
            \/ Falsy(At(Split(hemail, "@"), 1))
            \/ sortedMxRecords = <<>>)
              => (contacted = <<>> /\ hres = [value |-> FALSE])
        /\ (hres # NoResult /\ hres.value) => (hi >= 1 /\ hpromise = "true")
        /\ (hres # NoResult /\ ~hres.value /\ hi > 0) =>
              (hi = Len(sortedMxRecords) /\ hpromise \in {"false", "rejected"})
        /\ (hres # NoResult /\ hi < Len(sortedMxRecords) /\ hi > 0) => hres.value

\* The handshake of the first host rejected or resolved false, the handshake
\* of the second resolved true, and true was returned.
C29_Witness ==
    /\ hpc = "returned"
    /\ Len(contacted) = 2
    /\ sortedMxRecords[1].priority < sortedMxRecords[2].priority
    /\ hres = [value |-> TRUE]

\* C30: the outcome of a verifyEmail call is decided once: a probe resolved
\* by a reply or an error has its timer cleared, a probe resolved by the
\* timeout has its socket destroyed, and once the probe has resolved no step
\* changes its result, what resolved it, its timer, its socket or the
\* commands written.
C30_DecidedOnce ==
    [][ /\ smtp' # NoResult =>
              /\ resolvedBy' \in {"reply", "error"} => timeoutId' = "cleared"
              /\ resolvedBy' = "timeout" => (timeoutId' = "fired" /\ socket' = "destroyed")
        /\ smtp # NoResult =>
              /\ smtp' = smtp
              /\ resolvedBy' = resolvedBy
              /\ timeoutId' = timeoutId
              /\ socket' = socket
              /\ written' = written ]_vars

\* A probe resolved by a reply, with its timer cleared, has gone on to create.
C30_Witness ==
    /\ pc = "create"
    /\ resolvedBy = "reply"
    /\ timeoutId = "cleared"
    /\ socket = "destroyed"


\* C31: verifyOneEmail never raises to its caller: when the pipeline throws
\* (an address without '@', a rejected emailsModel.create) the call has
\* returned without a record; and a verifyManyEmail batch is not cut short by
\* a failing target: when it returns, every target of the input has been
\* verified and has its result, a record of that target or no record, at its
\* position.
C31_NeverRaisesBatchGoesOn ==
    /\ pc # "raised"
    /\ (pc = "returned" /\ (checkFreeOrPaidThrows(check) \/ createFailed))
           => res = NoResult
    /\ (api = "many" /\ loop = "returned") =>
           /\ idx = Len(emails)
           /\ Len(dataa) = Len(emails)
           /\ \A i \in 1..Len(emails) :
                 /\ checkFreeOrPaidThrows(emails[i]) => dataa[i] = NoResult
                 /\ dataa[i] # NoResult => dataa[i].email = emails[i]

\* C31 witness: a batch of two targets has returned; the first target failed
\* and has no record, the second was verified after it and is stored.
C31_FailedThenStored ==
    /\ api = "many"
    /\ loop = "returned"
    /\ Len(emails) = 2
    /\ dataa[1] = NoResult
    /\ dataa[2] # NoResult
    /\ dataa[2] \in emailsModel
    /\ dataa[2].email = emails[2]


\* C32: however concurrent createUser calls for one email interleave, no
\* call raises and the collection never holds two users of an email; when
\* two calls both found no user and both went on to create, the create that
\* settles second is rejected by the unique index, the rejection is caught
\* and logged, that call returns no user, and the collection holds exactly
\* one user of the email; a call that created a user finds it the only user
\* of its email.
C32_RaceLeavesOneUser ==
    /\ \A u \in Callers : upc[u] \in {"idle", "findOne", "create", "save", "done"}
    /\ \A e \in UserEmails : Cardinality(UsersOf(usersModel, e)) <= 1
    /\ \A u \in Callers :
          /\ uuser[u] # NoResult => UsersOf(usersModel, uemail[u]) = {uuser[u]}
          /\ uerr[u] # "none" =>
                /\ uerr[u] = DuplicateKey
                /\ upc[u] \in {"done", "idle"}
                /\ uuser[u] = NoResult
                /\ ures[u] = NoResult
                /\ Cardinality(UsersOf(usersModel, uemail[u])) = 1

\* C32 witness: both calls were made for one email that was not registered,
\* both found no user; the first has created and returned the user, the
\* second had its create rejected, logged it and is done.
C32_BothLookedUpThenCreated ==
    /\ uemail["first"] = uemail["second"]
    /\ ~uknown["first"]
    /\ ~uknown["second"]
    /\ upc["first"] = "done"
    /\ upc["second"] = "done"
    /\ ures["first"] = uuser["first"]
    /\ uuser["first"] \in usersModel
    /\ uerr["second"] = DuplicateKey
    /\ ures["second"] = NoResult
    /\ Cardinality(usersModel) = 1

====
